---------------------------- MODULE Spec2Model ----------------------------
(***************************************************************************)
(* Trace session lifecycle and event pipeline of pyetwkit-core:            *)
(* EtwSession (session.rs) and KernelSession (kernel.rs), the bounded      *)
(* channel between the backend callback and the consumer, and the          *)
(* StatsTracker counters (stats.rs).                                       *)
(*                                                                         *)
(* Three kinds of thread act on a session: the owner (start, stop, the     *)
(* receives, drop), the processing thread spawned by start(), and the      *)
(* backend callback running inside that thread's processing loop.  The     *)
(* owner's methods are split where another thread can interleave: after    *)
(* the spawn, after the write of Running, and at the join.                 *)
(*                                                                         *)
(* Further components, each with a specification of its own: the file      *)
(* reader EtlReader / PyEtlReader with its replay threads (etl_reader.rs,  *)
(* SpecReader), a StatsTracker used on its own with a clock (stats.rs,     *)
(* SpecStats), and EtwProvider::matches_event (provider.rs, filter.rs,     *)
(* SpecProvider).                                                          *)
(***************************************************************************)
EXTENDS Integers, Sequences, FiniteSets

\* ------------------------------------------------------------------ bounds
\* Successful backend starts (= processing threads ever spawned) explored.
MaxStarts == 2
\* Callback invocations explored.
MaxEvents == 4
\* config.channel_capacity of the explored sessions.
Capacity == 2

\* Events in the trace file an EtlReader replays.
FileLen == 2
\* EtlReader::start() calls (= replay threads ever spawned) explored.
MaxReplays == 2

Threads == 1..MaxStarts
Events  == 1..MaxEvents
Replays == 1..MaxReplays

\* Width of the keyword masks explored (u64 in the code).
MaskWidth == 2

\* Sum of a StatsTracker's counters explored.
MaxRecords == 2
\* Clock ticks after a StatsTracker's construction explored.
MaxTime == 2

VARIABLES
    kind,            \* "etw" (EtwSession) or "kernel" (KernelSession)
    stop_if_exists,  \* config.stop_if_exists
    state,           \* Arc<RwLock<SessionState>>
    handle,          \* Option<SessionHandle> / Option<KernelHandle>
    pc,              \* where the owner thread is
    trace_thread,    \* start()'s local trace_thread / stop()'s local thread
    thr,             \* each processing thread: none, processing, exited, done
    trace,           \* each backend trace: none, live, stopped
    cb,              \* the event a thread's callback is handling (0: none)
    queue,           \* the bounded channel's buffer
    rxAlive,         \* the session (and its event_rx) has not been released
    stats,           \* StatsTracker counters
    nextEv,          \* identity of the next raw record
    delivered,       \* events the consumer has received, in order
    outcome,         \* what try_send answered for each event
    ret,             \* the last lifecycle call that returned, and its result
    backendCalls,    \* backend calls issued by the current / last lifecycle call
    okStarts         \* successful start() calls since the last stop() call

vars == <<kind, stop_if_exists, state, handle, pc, trace_thread, thr, trace, cb,
          queue, rxAlive, stats, nextEv, delivered, outcome, ret, backendCalls,
          okStarts>>

\* The file reader (etl_reader.rs): EtlReader, its PyEtlReader wrapper, the
\* replay threads and their unbounded channels.
VARIABLES
    path_exists,     \* Path::exists() of the path given to new()
    rd,              \* the reader object: which API owns it, receiver,
                     \* thread_handle, PyEtlReader::started
    replay,          \* each replay thread: status and events sent so far
    chan,            \* each std::sync::mpsc channel's buffer
    rpc,             \* where the reader's owner is (inside read_all or not)
    acc,             \* read_all's local `events`
    rret,            \* the last reader call and its result
    got              \* every event the owner has retrieved, in order

rvars == <<path_exists, rd, replay, chan, rpc, acc, rret, got>>

\* A StatsTracker used on its own (stats.rs): all five counters, the start
\* instant and the buffer configuration, with a clock.
VARIABLES
    tracker,         \* struct StatsTracker
    now,             \* the monotonic clock (Instant::now()), in seconds
    snap,            \* the last SessionStats returned by snapshot()
    was_reset        \* reset() has been called on the tracker

svars == <<tracker, now, snap, was_reset>>

\* A call of EtwProvider::matches_event (provider.rs): the provider, the
\* event criteria given to it, and its answer.
VARIABLES
    probe

pvars == <<probe>>

\* A call on an EventFilter or a FilterBuilder (filter.rs): the filters, the
\* arguments, which method was called (on which filter) and its answer.
VARIABLES
    fprobe

\* The category mask of a KernelSession (kernel.rs): config.categories, the
\* session state and what the backend trace was enabled for.
VARIABLES
    kcfg

\* An EtwSession whose provider carries a ProcessId filter (session.rs): the
\* filter handed to the backend, and the events on their way to the consumer,
\* each given by its process id.
VARIABLES
    pf

xvars == <<fprobe, kcfg, pf>>

\* A call of parse_event_record's timestamp conversion (session.rs): the raw
\* timestamp of the record and the timestamp given to the event.
VARIABLES
    tprobe

\* The path of an event from the callback to the consumer, statement by
\* statement (session.rs, kernel.rs, stats.rs): the three counters, where each
\* callback invocation is, the channel, what was sent and received, and a
\* snapshot being taken.
VARIABLES
    cs

yvars == <<tprobe, cs>>

\* Every variable of the module.
allvars == <<vars, rvars, svars, pvars, xvars, yvars>>

\* What the steps of each component leave alone.
not_session  == <<rvars, svars, pvars, xvars, yvars>>
not_reader   == <<vars, svars, pvars, xvars, yvars>>
not_stats    == <<vars, rvars, pvars, xvars, yvars>>
not_provider == <<vars, rvars, svars, xvars, yvars>>
not_filter   == <<vars, rvars, svars, pvars, kcfg, pf, yvars>>
not_kernel_config == <<vars, rvars, svars, pvars, fprobe, pf, yvars>>
not_pid_filter    == <<vars, rvars, svars, pvars, fprobe, kcfg, yvars>>
not_timestamp == <<vars, rvars, svars, pvars, xvars, cs>>
not_channel   == <<vars, rvars, svars, pvars, xvars, tprobe>>

\* ------------------------------------------------------------------ helpers
\* handle: None
NoHandle == [trace |-> FALSE, trace_thread |-> 0, stop_flag |-> FALSE]

\* SessionState / KernelSessionState
SessionState == {"Created", "Running", "Stopped", "Error"}

\* The seq's elements as a set.
Range(s) == {s[i] : i \in 1..Len(s)}

\* A backend call and its outcome, as logged in backendCalls.
Call(op, arg, ok) == [op |-> op, arg |-> arg, ok |-> ok]

\* stop_trace_by_name / UserTrace::stop told the backend to stop: every live
\* trace of this session ends (its processing loop will return).
BackendStop(tr) == [t \in Threads |-> IF tr[t] = "live" THEN "stopped" ELSE tr[t]]

\* start() without its guard.
start_refused_never(s) == FALSE
\* The guard of start(): `if state == SessionState::Running`.
start_refused(s) == s = "Running"

\* stop() without its guard.
stop_refused_never(s) == FALSE

\* The guard of stop(): `if state != SessionState::Running`.
stop_refused(s) == s # "Running"

\* crossbeam_channel::Sender::send, which waits for room (not what the code calls).
send(alive, q, e) ==
    IF ~alive THEN [res |-> "Disconnected", q |-> q]
    ELSE IF Len(q) >= Capacity THEN [res |-> "WouldBlock", q |-> q]
    ELSE [res |-> "Ok", q |-> Append(q, e)]

\* A bounded channel that overwrites its oldest element when full.
try_send_drop_oldest(alive, q, e) ==
    IF ~alive THEN [res |-> "Disconnected", q |-> q]
    ELSE IF Len(q) >= Capacity THEN [res |-> "Full", q |-> Append(Tail(q), e)]
    ELSE [res |-> "Ok", q |-> Append(q, e)]

\* A channel without a capacity: try_send never answers Full.
try_send_unbounded(alive, q, e) ==
    IF ~alive THEN [res |-> "Disconnected", q |-> q]
    ELSE [res |-> "Ok", q |-> Append(q, e)]

\* crossbeam_channel::Sender::try_send on the bounded(channel_capacity) channel:
\* Disconnected once the receiver is gone, Full at capacity, else enqueued.
try_send(alive, q, e) ==
    IF ~alive THEN [res |-> "Disconnected", q |-> q]
    ELSE IF Len(q) >= Capacity THEN [res |-> "Full", q |-> q]
    ELSE [res |-> "Ok", q |-> Append(q, e)]

\* The callback's match with the Full arm counting the event as processed.
record_send_full_as_processed(st, res) ==
    CASE res = "Ok"   -> [st EXCEPT !.processed = @ + 1]
      [] res = "Full" -> [st EXCEPT !.processed = @ + 1]
      [] OTHER        -> st

\* The callback's match with the Disconnected arm counting a lost event.
record_send_disconnected_as_lost(st, res) ==
    CASE res = "Ok"   -> [st EXCEPT !.processed = @ + 1]
      [] OTHER        -> [st EXCEPT !.lost = @ + 1]

\* The callback's match on try_send's answer: record_event_processed on Ok,
\* record_events_lost(1) on Full, nothing on Disconnected.
record_send(st, res) ==
    CASE res = "Ok"   -> [st EXCEPT !.processed = @ + 1]
      [] res = "Full" -> [st EXCEPT !.lost = @ + 1]
      [] OTHER        -> st

\* A callback that does not count the record it was handed.
record_event_received_never(st) == st

\* StatsTracker::record_event_received
record_event_received(st) == [st EXCEPT !.received = @ + 1]

\* ------------------------------------------------------------------ Init
\* with_config: state Created, a fresh bounded channel, zeroed counters, no handle.
\* No reader yet: nothing constructed, no channel, no replay thread.
NoReader == [obj |-> "none", receiver |-> 0, thread_handle |-> 0, started |-> FALSE]

\* The reader part of the state before EtlReader::new is called on a path
\* that exists (e) or not.
ReaderInit(e) ==
    /\ path_exists = e
    /\ rd = NoReader
    /\ replay = [k \in Replays |-> [st |-> "none", pos |-> 0]]
    /\ chan = [k \in Replays |-> <<>>]
    /\ rpc = "idle"
    /\ acc = <<>>
    /\ rret = [op |-> "init", res |-> "Ok"]
    /\ got = <<>>

\* No snapshot taken yet.
NoSnap == [taken |-> FALSE]

\* StatsTracker::new(buffer_size_kb, buffers_allocated); the clock counts
\* from the construction.
TrackerInit(size, count) ==
    /\ tracker = [events_received |-> 0, events_processed |-> 0, events_lost |-> 0,
                  buffers_lost |-> 0, buffers_read |-> 0, start_time |-> 0,
                  buffer_size_kb |-> size, buffers_allocated |-> count]
    /\ now = 0
    /\ snap = NoSnap
    /\ was_reset = FALSE

\* Keyword masks as sets of bit positions: bitwise AND is intersection, 0 is
\* the empty set, 0xFFFFFFFFFFFFFFFF (all ones) is every position.
KeywordBits == 0..(MaskWidth - 1)
Zero == {}
AllOnes == KeywordBits
And(a, b) == a \cap b

\* EtwProvider::by_guid: level Verbose, keywords_any all ones, keywords_all 0,
\* no filters.
by_guid == [level |-> 5, keywords_any |-> AllOnes, keywords_all |-> Zero, filters |-> <<>>]

\* matches_event not called yet: provider p and the criteria of event ev.
ProbeInit(p, ev) ==
    probe = [provider |-> p, event_id |-> ev[1], opcode |-> ev[2], level |-> ev[3],
             keywords |-> ev[4], called |-> FALSE, result |-> FALSE]

\* No method called yet on the filters fs; ev holds the arguments: event id,
\* opcode, process id and process name.
FilterProbeInit(fs, ev) ==
    fprobe = [filters |-> fs, event_id |-> ev[1], opcode |-> ev[2], pid |-> ev[3],
              process_name |-> ev[4], op |-> "none", index |-> 0, result |-> FALSE]

\* KernelEventCategory::AllBasic = Process | Thread | ImageLoad, as a set of
\* flags.
AllBasic == {"Process", "Thread", "ImageLoad"}

\* KernelSession::with_config(KernelSessionConfig::default()): the mask is
\* AllBasic, no backend trace exists.
KernelConfigInit ==
    kcfg = [categories |-> AllBasic, state |-> "Created", enabled |-> <<>>,
            at_start |-> <<>>, ret |-> "new"]

\* EtwSession with one provider whose only filter is ProcessId(p), before
\* start().
PidFilterInit(p) ==
    pf = [pid |-> p, state |-> "Created", ret |-> "new", backend_filters |-> <<>>,
          queue |-> <<>>, delivered |-> <<>>, emitted |-> 0]

\* The offset between the 1601 and the 1970 epoch in 100 ns ticks,
\* 116444736000000000, is FILETIME_EPOCH_HI * Limb: tick counts are held as
\* <<hi, lo>> for hi * Limb + lo with 0 <= lo < Limb, which keeps every number
\* the conversion meets within the checker's integers.
Limb == 1000000000
FILETIME_EPOCH_HI == 116444736

\* The conversion not called yet on the record whose raw_timestamp() is raw.
TimestampProbeInit(raw) ==
    tprobe = [raw |-> raw, called |-> FALSE, timestamp |-> <<>>]

\* with_config: zeroed counters, an empty bounded channel whose receiver the
\* session holds; no callback running, no snapshot taken.  cs.snap holds the
\* SessionStats being filled by snapshot() (pc "received", "processed") or
\* the one it returned last (pc "returned").
ChannelInit ==
    cs = [stats |-> [received |-> 0, processed |-> 0, lost |-> 0],
          cb |-> [t \in Threads |-> [pc |-> "idle", ev |-> 0, res |-> "none"]],
          next |-> 1,
          queue |-> <<>>, sent |-> <<>>, delivered |-> <<>>,
          rx_alive |-> TRUE, discarded |-> 0,
          snap |-> [pc |-> "none", received |-> 0, processed |-> 0, lost |-> 0]]

\* A session of kind k, constructed with stop_if_exists = s.
SessionInit(k, s) ==
    /\ kind = k
    /\ stop_if_exists = s
    /\ state = "Created"
    /\ handle = NoHandle
    /\ pc = "idle"
    /\ trace_thread = 0
    /\ thr = [t \in Threads |-> "none"]
    /\ trace = [t \in Threads |-> "none"]
    /\ cb = [t \in Threads |-> 0]
    /\ queue = <<>>
    /\ rxAlive = TRUE
    /\ stats = [received |-> 0, processed |-> 0, lost |-> 0]
    /\ nextEv = 1
    /\ delivered = <<>>
    /\ outcome = [e \in Events |-> "none"]
    /\ ret = [op |-> "new", res |-> "Ok"]
    /\ backendCalls = <<>>
    /\ okStarts = 0

\* The components a specification does not exercise, in their initial state.
SessionIdle == SessionInit("etw", FALSE)
ReaderIdle == ReaderInit(FALSE)
TrackerIdle == TrackerInit(64, 64)
ProbeIdle == ProbeInit(by_guid, <<1, 0, 0, Zero>>)
FilterProbeIdle == FilterProbeInit(<<>>, <<1, 0, 0, [some |-> FALSE]>>)
PidFilterIdle == PidFilterInit(0)
TimestampIdle == TimestampProbeInit(<<FILETIME_EPOCH_HI, 0>>)

Init ==
    /\ \E k \in {"etw", "kernel"}, s \in BOOLEAN : SessionInit(k, s)
    /\ ReaderIdle /\ TrackerIdle /\ ProbeIdle
    /\ FilterProbeIdle /\ KernelConfigInit /\ PidFilterIdle
    /\ TimestampIdle /\ ChannelInit


\* ------------------------------------------------------------------ owner
\* A lifecycle call made by Drop is followed by the release of the session's
\* fields (event_rx, event_tx, handle); any other call returns to the caller.
InDrop == pc \in {"drop_stop", "drop_join"}

Returns(h) ==
    IF InDrop
    THEN /\ pc' = "released"
         /\ rxAlive' = FALSE
         /\ handle' = NoHandle
    ELSE /\ pc' = "idle"
         /\ rxAlive' = rxAlive
         /\ handle' = h

\* Advisory stops issued whether or not stop_if_exists is set.
advisory_stops_always(a1, a2) ==
    IF kind = "etw"
    THEN <<Call("stop_trace_by_name", "config.name", a1)>>
    ELSE <<Call("stop_trace_by_name", "NT Kernel Logger", a1),
           Call("stop_trace_by_name", "config.name", a2)>>

\* Advisory stops chained with `?` / and_then: the KernelSession's second stop
\* is skipped when the first fails.
advisory_stops_until_failure(a1, a2) ==
    IF ~stop_if_exists THEN <<>>
    ELSE IF kind = "etw"
    THEN <<Call("stop_trace_by_name", "config.name", a1)>>
    ELSE IF a1
    THEN <<Call("stop_trace_by_name", "NT Kernel Logger", a1),
           Call("stop_trace_by_name", "config.name", a2)>>
    ELSE <<Call("stop_trace_by_name", "NT Kernel Logger", a1)>>

\* The advisory pre-start stops of start(): one by the configured name
\* (EtwSession), the well-known name and then the configured name (KernelSession);
\* none without stop_if_exists.
advisory_stops(a1, a2) ==
    IF ~stop_if_exists THEN <<>>
    ELSE IF kind = "etw"
    THEN <<Call("stop_trace_by_name", "config.name", a1)>>
    ELSE <<Call("stop_trace_by_name", "NT Kernel Logger", a1),
           Call("stop_trace_by_name", "config.name", a2)>>

AnyOk(calls) == \E i \in 1..Len(calls) : calls[i].ok

\* The thread id the next spawn gets.
FreshThread == CHOOSE t \in Threads : thr[t] = "none" /\ \A u \in 1..(t-1) : thr[u] # "none"

\* start() that writes Running before it asks the backend to start and does
\* not undo the write when the backend fails.
start_enter_running_first ==
    /\ pc = "idle"
    /\ IF start_refused(state)
       THEN /\ ret' = [op |-> "start", res |-> "SessionAlreadyRunning"]
            /\ backendCalls' = <<>>
            /\ UNCHANGED <<pc, trace_thread, thr, trace, state>>
       ELSE \E a1, a2, ok \in BOOLEAN :
            LET adv == advisory_stops(a1, a2)
                tr  == IF AnyOk(adv) THEN BackendStop(trace) ELSE trace
            IN  /\ backendCalls' = Append(adv, Call("start", "config.name", ok))
                /\ state' = "Running"
                /\ IF ok
                   THEN /\ \E t \in Threads : thr[t] = "none"
                        /\ thr' = [thr EXCEPT ![FreshThread] = "processing"]
                        /\ trace' = [tr EXCEPT ![FreshThread] = "live"]
                        /\ trace_thread' = FreshThread
                        /\ pc' = "start_spawned"
                        /\ ret' = ret
                   ELSE /\ ret' = [op |-> "start", res |-> "StartTraceFailed"]
                        /\ trace' = tr
                        /\ UNCHANGED <<pc, trace_thread, thr>>
    /\ UNCHANGED <<kind, stop_if_exists, handle, cb, queue, rxAlive, stats,
                   nextEv, delivered, outcome, okStarts>>

\* start() that gives the session a fresh channel and zeroed counters each
\* time it starts the backend.
start_enter_fresh_channel ==
    /\ pc = "idle"
    /\ IF start_refused(state)
       THEN /\ ret' = [op |-> "start", res |-> "SessionAlreadyRunning"]
            /\ backendCalls' = <<>>
            /\ UNCHANGED <<pc, trace_thread, thr, trace, queue, stats>>
       ELSE \E a1, a2, ok \in BOOLEAN :
            LET adv == advisory_stops(a1, a2)
                tr  == IF AnyOk(adv) THEN BackendStop(trace) ELSE trace
            IN  /\ backendCalls' = Append(adv, Call("start", "config.name", ok))
                /\ queue' = <<>>
                /\ stats' = [received |-> 0, processed |-> 0, lost |-> 0]
                /\ IF ok
                   THEN /\ \E t \in Threads : thr[t] = "none"
                        /\ thr' = [thr EXCEPT ![FreshThread] = "processing"]
                        /\ trace' = [tr EXCEPT ![FreshThread] = "live"]
                        /\ trace_thread' = FreshThread
                        /\ pc' = "start_spawned"
                        /\ ret' = ret
                   ELSE /\ ret' = [op |-> "start", res |-> "StartTraceFailed"]
                        /\ trace' = tr
                        /\ UNCHANGED <<pc, trace_thread, thr>>
    /\ UNCHANGED <<kind, stop_if_exists, state, handle, cb, rxAlive,
                   nextEv, delivered, outcome, okStarts>>

\* start(), up to and including thread::spawn: the guard, the advisory stops,
\* the backend start (which may fail) and the spawn of the processing thread.
start_enter ==
    /\ pc = "idle"
    /\ IF start_refused(state)
       THEN /\ ret' = [op |-> "start", res |-> "SessionAlreadyRunning"]
            /\ backendCalls' = <<>>
            /\ UNCHANGED <<pc, trace_thread, thr, trace>>
       ELSE \E a1, a2, ok \in BOOLEAN :
            LET adv == advisory_stops(a1, a2)
                tr  == IF AnyOk(adv) THEN BackendStop(trace) ELSE trace
            IN  /\ backendCalls' = Append(adv, Call("start", "config.name", ok))
                /\ IF ok
                   THEN /\ \E t \in Threads : thr[t] = "none"
                        /\ thr' = [thr EXCEPT ![FreshThread] = "processing"]
                        /\ trace' = [tr EXCEPT ![FreshThread] = "live"]
                        /\ trace_thread' = FreshThread
                        /\ pc' = "start_spawned"
                        /\ ret' = ret
                   ELSE /\ ret' = [op |-> "start", res |-> "StartTraceFailed"]
                        /\ trace' = tr
                        /\ UNCHANGED <<pc, trace_thread, thr>>
    /\ UNCHANGED <<kind, stop_if_exists, state, handle, cb, queue, rxAlive, stats,
                   nextEv, delivered, outcome, okStarts>>

\* start() that never writes Running.
start_set_running_skipped ==
    /\ pc = "start_spawned"
    /\ pc' = "start_written"
    /\ UNCHANGED <<kind, stop_if_exists, state, handle, trace_thread, thr, trace, cb,
                   queue, rxAlive, stats, nextEv, delivered, outcome, ret,
                   backendCalls, okStarts>>

\* start(): `*self.state.write() = SessionState::Running`.
start_set_running ==
    /\ pc = "start_spawned"
    /\ state' = "Running"
    /\ pc' = "start_written"
    /\ UNCHANGED <<kind, stop_if_exists, handle, trace_thread, thr, trace, cb, queue,
                   rxAlive, stats, nextEv, delivered, outcome, ret, backendCalls,
                   okStarts>>

\* start(): `self.handle = Some(..)` and `Ok(())`.
start_return ==
    /\ pc = "start_written"
    /\ handle' = [trace |-> (kind = "etw"), trace_thread |-> trace_thread,
                  stop_flag |-> FALSE]
    /\ ret' = [op |-> "start", res |-> "Ok"]
    /\ pc' = "idle"
    /\ trace_thread' = 0
    /\ okStarts' = okStarts + 1
    /\ UNCHANGED <<kind, stop_if_exists, state, thr, trace, cb, queue, rxAlive,
                   stats, nextEv, delivered, outcome, backendCalls>>

\* EtwSession::stop up to the join: the guard, the stop flag, handle.take(),
\* `let _ = trace.stop()` (its failure ignored).
etw_stop_enter ==
    /\ kind = "etw"
    /\ pc \in {"idle", "drop_stop"}
    /\ okStarts' = 0
    /\ IF stop_refused(state)
       THEN /\ ret' = [op |-> "stop", res |-> "SessionNotRunning"]
            /\ backendCalls' = <<>>
            /\ Returns(handle)
            /\ UNCHANGED <<trace_thread, trace>>
       ELSE \E ok \in BOOLEAN :
            /\ backendCalls' = IF handle.trace
                               THEN <<Call("trace.stop", "handle", ok)>> ELSE <<>>
            /\ trace' = IF handle.trace /\ ok
                        THEN [trace EXCEPT ![handle.trace_thread] =
                                 IF @ = "live" THEN "stopped" ELSE @]
                        ELSE trace
            /\ trace_thread' = handle.trace_thread
            /\ handle' = NoHandle
            /\ pc' = IF pc = "idle" THEN "stop_join" ELSE "drop_join"
            /\ UNCHANGED <<ret, rxAlive>>
    /\ UNCHANGED <<kind, stop_if_exists, state, thr, cb, queue, stats, nextEv,
                   delivered, outcome>>

\* KernelSession::stop that sets the stop flag, writes Stopped and takes the
\* handle before it asks the backend to stop.
kernel_stop_enter_stopped_first ==
    /\ kind = "kernel"
    /\ pc \in {"idle", "drop_stop"}
    /\ okStarts' = 0
    /\ IF stop_refused(state)
       THEN /\ ret' = [op |-> "stop", res |-> "SessionNotRunning"]
            /\ backendCalls' = <<>>
            /\ Returns(handle)
            /\ UNCHANGED <<trace_thread, trace, state>>
       ELSE \E r1, r2 \in BOOLEAN :
            /\ backendCalls' =
                  IF r1 THEN <<Call("stop_trace_by_name", "NT Kernel Logger", r1)>>
                  ELSE <<Call("stop_trace_by_name", "NT Kernel Logger", r1),
                         Call("stop_trace_by_name", "config.name", r2)>>
            /\ state' = "Stopped"
            /\ IF r1 \/ r2
               THEN /\ trace' = BackendStop(trace)
                    /\ trace_thread' = handle.trace_thread
                    /\ handle' = NoHandle
                    /\ pc' = IF pc = "idle" THEN "stop_join" ELSE "drop_join"
                    /\ UNCHANGED <<ret, rxAlive>>
               ELSE /\ ret' = [op |-> "stop", res |-> "StopTraceFailed"]
                    /\ Returns(NoHandle)
                    /\ UNCHANGED <<trace_thread, trace>>
    /\ UNCHANGED <<kind, stop_if_exists, thr, cb, queue, stats, nextEv, delivered,
                   outcome>>

\* KernelSession::stop up to the join: the guard, stop_trace_by_name of the
\* well-known name or else of the configured name (failure of both returned as
\* StopTraceFailed), the stop flag, the write of Stopped, handle.take().
kernel_stop_enter ==
    /\ kind = "kernel"
    /\ pc \in {"idle", "drop_stop"}
    /\ okStarts' = 0
    /\ IF stop_refused(state)
       THEN /\ ret' = [op |-> "stop", res |-> "SessionNotRunning"]
            /\ backendCalls' = <<>>
            /\ Returns(handle)
            /\ UNCHANGED <<trace_thread, trace, state>>
       ELSE \E r1, r2 \in BOOLEAN :
            /\ backendCalls' =
                  IF r1 THEN <<Call("stop_trace_by_name", "NT Kernel Logger", r1)>>
                  ELSE <<Call("stop_trace_by_name", "NT Kernel Logger", r1),
                         Call("stop_trace_by_name", "config.name", r2)>>
            /\ IF r1 \/ r2
               THEN /\ trace' = BackendStop(trace)
                    /\ state' = "Stopped"
                    /\ trace_thread' = handle.trace_thread
                    /\ handle' = NoHandle
                    /\ pc' = IF pc = "idle" THEN "stop_join" ELSE "drop_join"
                    /\ UNCHANGED <<ret, rxAlive>>
               ELSE /\ ret' = [op |-> "stop", res |-> "StopTraceFailed"]
                    /\ Returns(handle)
                    /\ UNCHANGED <<trace_thread, trace, state>>
    /\ UNCHANGED <<kind, stop_if_exists, thr, cb, queue, stats, nextEv, delivered,
                   outcome>>

\* stop() that does not wait for the processing thread.
joined_without_waiting(t) == TRUE

\* JoinHandle::join returns once the thread has finished.
joined(t) == t = 0 \/ thr[t] = "done"

\* stop() from the join on: `thread.join()`, then (EtwSession) the write of
\* Stopped, then `Ok(())`.
stop_join ==
    /\ pc \in {"stop_join", "drop_join"}
    /\ joined(trace_thread)
    /\ state' = IF kind = "etw" THEN "Stopped" ELSE state
    /\ ret' = [op |-> "stop", res |-> "Ok"]
    /\ trace_thread' = 0
    /\ Returns(handle)
    /\ UNCHANGED <<kind, stop_if_exists, thr, trace, cb, queue, stats, nextEv,
                   delivered, outcome, backendCalls, okStarts>>

\* Drop: `if self.is_running() { let _ = self.stop(); }`, then the fields are
\* released.  stop() reads the state again.
drop_enter ==
    /\ pc = "idle"
    /\ IF state = "Running"
       THEN /\ pc' = "drop_stop"
            /\ UNCHANGED <<rxAlive, handle>>
       ELSE /\ pc' = "released"
            /\ rxAlive' = FALSE
            /\ handle' = NoHandle
    /\ UNCHANGED <<kind, stop_if_exists, state, trace_thread, thr, trace, cb, queue,
                   stats, nextEv, delivered, outcome, ret, backendCalls, okStarts>>

\* ------------------------------------------------------------------ processing thread
\* process_from_handle / start_and_process returns: the trace was stopped, or the
\* backend ended it on its own (an error, a stop issued elsewhere).  The callback
\* runs inside this loop, so the loop does not return during a callback.
process_exit(t) ==
    /\ thr[t] = "processing"
    /\ cb[t] = 0
    /\ thr' = [thr EXCEPT ![t] = "exited"]
    /\ trace' = [trace EXCEPT ![t] = "stopped"]
    /\ UNCHANGED <<kind, stop_if_exists, state, handle, pc, trace_thread, cb, queue,
                   rxAlive, stats, nextEv, delivered, outcome, ret, backendCalls,
                   okStarts>>

\* A processing thread that reports the end of its loop as Error.
thread_set_stopped_as_error(t) ==
    /\ thr[t] = "exited"
    /\ state' = "Error"
    /\ thr' = [thr EXCEPT ![t] = "done"]
    /\ UNCHANGED <<kind, stop_if_exists, handle, pc, trace_thread, trace, cb, queue,
                   rxAlive, stats, nextEv, delivered, outcome, ret, backendCalls,
                   okStarts>>

\* The thread's last statement: `*state_clone.write() = SessionState::Stopped`.
thread_set_stopped(t) ==
    /\ thr[t] = "exited"
    /\ state' = "Stopped"
    /\ thr' = [thr EXCEPT ![t] = "done"]
    /\ UNCHANGED <<kind, stop_if_exists, handle, pc, trace_thread, trace, cb, queue,
                   rxAlive, stats, nextEv, delivered, outcome, ret, backendCalls,
                   okStarts>>

\* ------------------------------------------------------------------ callback
\* The callback up to try_send: record_event_received, parse_event_record.
callback_enter(t) ==
    /\ thr[t] = "processing"
    /\ cb[t] = 0
    /\ nextEv <= MaxEvents
    /\ stats' = record_event_received(stats)
    /\ cb' = [cb EXCEPT ![t] = nextEv]
    /\ outcome' = [outcome EXCEPT ![nextEv] = "pending"]
    /\ nextEv' = nextEv + 1
    /\ UNCHANGED <<kind, stop_if_exists, state, handle, pc, trace_thread, thr, trace,
                   queue, rxAlive, delivered, ret, backendCalls, okStarts>>

\* The callback's `match event_tx.try_send(event)` and its return.
callback_send(t) ==
    /\ cb[t] # 0
    /\ LET r == try_send(rxAlive, queue, cb[t])
       IN  /\ r.res # "WouldBlock"
           /\ queue' = r.q
           /\ stats' = record_send(stats, r.res)
           /\ outcome' = [outcome EXCEPT ![cb[t]] = r.res]
    /\ cb' = [cb EXCEPT ![t] = 0]
    /\ UNCHANGED <<kind, stop_if_exists, state, handle, pc, trace_thread, thr, trace,
                   rxAlive, nextEv, delivered, ret, backendCalls, okStarts>>

\* ------------------------------------------------------------------ consumer
\* Receiver::recv / recv_timeout / try_recv when an event is queued.
Receive ==
    /\ queue # <<>>
    /\ delivered' = Append(delivered, Head(queue))
    /\ queue' = Tail(queue)

\* A consumer that counts the events it asks for as processed.
ConsumerFrame_counting ==
    /\ stats' = [stats EXCEPT !.processed = @ + 1]
    /\ UNCHANGED <<kind, stop_if_exists, state, handle, pc, trace_thread, thr, trace, cb,
                   rxAlive, nextEv, outcome, ret, backendCalls, okStarts>>

\* What a receive leaves alone: everything but the channel's content.
ConsumerFrame ==
    UNCHANGED <<kind, stop_if_exists, state, handle, pc, trace_thread, thr, trace, cb,
                rxAlive, stats, nextEv, outcome, ret, backendCalls, okStarts>>

\* Some Sender of the channel exists: the session's own event_tx field (set in
\* with_config, never taken by stop(), released with the session) or the clone
\* moved into a processing thread's callback.
senders_alive == rxAlive \/ \E t \in Threads : thr[t] \in {"processing", "exited"}

\* next_event: `recv().ok()`.  An event if one is queued; None once the queue
\* is empty and every sender is gone; blocks otherwise.
next_event ==
    /\ pc = "idle"
    /\ \/ Receive
       \/ queue = <<>> /\ ~senders_alive /\ UNCHANGED <<queue, delivered>>
    /\ ConsumerFrame

\* next_event_timeout: an event if one is queued, None after the timeout.
next_event_timeout ==
    /\ pc = "idle"
    /\ \/ Receive
       \/ queue = <<>> /\ UNCHANGED <<queue, delivered>>
    /\ ConsumerFrame

\* try_next_event: an event if one is queued, None otherwise.
try_next_event ==
    /\ pc = "idle"
    /\ \/ Receive
       \/ queue = <<>> /\ UNCHANGED <<queue, delivered>>
    /\ ConsumerFrame

\* stats(): `self.stats.snapshot()`, loads of the counters.  It assigns no
\* field of the session and none of the tracker.
session_stats ==
    /\ pc = "idle"
    /\ UNCHANGED vars

\* is_running(): `*self.state.read() == SessionState::Running`, a read.
is_running ==
    /\ pc = "idle"
    /\ UNCHANGED vars

\* ------------------------------------------------------------------ specification
Next ==
    \/ start_enter /\ UNCHANGED not_session
    \/ start_set_running /\ UNCHANGED not_session
    \/ start_return /\ UNCHANGED not_session
    \/ etw_stop_enter /\ UNCHANGED not_session
    \/ kernel_stop_enter /\ UNCHANGED not_session
    \/ stop_join /\ UNCHANGED not_session
    \/ drop_enter /\ UNCHANGED not_session
    \/ \E t \in Threads : process_exit(t) /\ UNCHANGED not_session
    \/ \E t \in Threads : thread_set_stopped(t) /\ UNCHANGED not_session
    \/ \E t \in Threads : callback_enter(t) /\ UNCHANGED not_session
    \/ \E t \in Threads : callback_send(t) /\ UNCHANGED not_session
    \/ next_event /\ UNCHANGED not_session
    \/ next_event_timeout /\ UNCHANGED not_session
    \/ try_next_event /\ UNCHANGED not_session
    \/ session_stats /\ UNCHANGED not_session
    \/ is_running /\ UNCHANGED not_session

Spec == Init /\ [][Next]_allvars

\* Sanity of the model's types.
TypeOK ==
    /\ state \in SessionState
    /\ pc \in {"idle", "start_spawned", "start_written", "stop_join", "drop_stop",
               "drop_join", "released"}
    /\ thr \in [Threads -> {"none", "processing", "exited", "done"}]
    /\ trace \in [Threads -> {"none", "live", "stopped"}]
    /\ cb \in [Threads -> 0..MaxEvents]
    /\ Len(queue) <= Capacity
    /\ okStarts \in 0..MaxStarts


\* ------------------------------------------------------------------ claims
\* Callback invocations that have run to completion.
Completed == Cardinality({e \in Events : outcome[e] \in {"Ok", "Full", "Disconnected"}})

\* try_send calls that answered Full.
FullCount == Cardinality({e \in Events : outcome[e] = "Full"})

\* Processing threads still running.
LiveThreads == {t \in Threads : thr[t] \in {"processing", "exited"}}

stop_enter == etw_stop_enter \/ kernel_stop_enter

\* C1 as claimed: among start() calls with no intervening stop(), only the first
\* returns success, whatever the backend and the processing thread do in between.
C1_OnlyFirstStartSucceeds == okStarts <= 1

\* C1 as amended: a start() called while the state reads Running returns
\* SessionAlreadyRunning and starts no backend trace and no processing thread; a
\* start() that follows a successful start() with no stop() in between gets past
\* the guard only when the earlier processing thread has left its backend loop,
\* finished, and the state reads Stopped.
C1_StartRefusedWhileRunning ==
    [][start_enter =>
         /\ state = "Running" =>
               /\ ret' = [op |-> "start", res |-> "SessionAlreadyRunning"]
               /\ backendCalls' = <<>>
               /\ UNCHANGED <<thr, trace, pc, state, handle>>
         /\ (okStarts >= 1 /\ pc' = "start_spawned") =>
               /\ state = "Stopped"
               /\ thr[handle.trace_thread] = "done"]_vars

\* C1: a start() was refused on a running session whose thread is processing.
C1_Witness ==
    /\ ret = [op |-> "start", res |-> "SessionAlreadyRunning"]
    /\ state = "Running"
    /\ okStarts = 1
    /\ \E t \in Threads : thr[t] = "processing"

\* C2: stop() on a Created or Stopped session returns SessionNotRunning, issues no
\* backend stop call and leaves the state (and traces and threads) unchanged; a
\* stop() directly after a successful stop() returns SessionNotRunning.
C2_StopNotRunning ==
    [][stop_enter =>
         /\ state \in {"Created", "Stopped"} =>
               /\ ret' = [op |-> "stop", res |-> "SessionNotRunning"]
               /\ backendCalls' = <<>>
               /\ UNCHANGED <<state, trace, thr>>
         /\ ret = [op |-> "stop", res |-> "Ok"] =>
               ret' = [op |-> "stop", res |-> "SessionNotRunning"]]_vars

\* C2: stop() was refused on a session that a thread of its own had run and that
\* is Stopped.
C2_Witness ==
    /\ ret = [op |-> "stop", res |-> "SessionNotRunning"]
    /\ state = "Stopped"
    /\ pc = "idle"
    /\ \E t \in Threads : thr[t] = "done"

\* C3: with capacity N, a connected channel and no receive so far, once N+k (k>0)
\* callbacks have completed exactly k sends answered Full, lost = k, processed = N
\* and the queue holds the first N events in order.
C3_LossAccounting ==
    (rxAlive /\ delivered = <<>> /\ Completed > Capacity) =>
        /\ FullCount = Completed - Capacity
        /\ stats.lost = Completed - Capacity
        /\ stats.processed = Capacity
        /\ queue = [i \in 1..Capacity |-> i]

\* C3: N+2 callbacks completed with no receive.
C3_Witness == rxAlive /\ delivered = <<>> /\ Completed = Capacity + 2

\* C4: a callback that has begun can always take its send step, whatever the
\* queue holds and wherever the owner and the consumer are.
C4_CallbackNeverBlocks == \A t \in Threads : cb[t] # 0 => ENABLED callback_send(t)

\* C4: a callback is in progress, the queue is full and the owner is blocked in
\* the join (so nobody receives).
C4_Witness ==
    \E t \in Threads : cb[t] # 0 /\ Len(queue) = Capacity /\ pc = "stop_join"

\* C5: a callback that finds the connected channel full adds exactly 1 to lost,
\* leaves processed, the queue and the delivered events as they were, and an event
\* answered Full is never queued nor delivered afterwards.
C5_DropNew ==
    /\ [](\A e \in Events :
            outcome[e] = "Full" => e \notin (Range(queue) \cup Range(delivered)))
    /\ [][\A t \in Threads :
            (callback_send(t) /\ rxAlive /\ Len(queue) >= Capacity) =>
                /\ stats'.lost = stats.lost + 1
                /\ stats'.processed = stats.processed
                /\ queue' = queue
                /\ delivered' = delivered
                /\ outcome'[cb[t]] = "Full"]_vars

\* C5: an event was dropped at a full queue and the consumer has since received
\* a queue's worth of events.
C5_Witness ==
    \E e \in Events : outcome[e] = "Full" /\ Len(delivered) >= Capacity

\* C6: a callback that finds the channel disconnected changes no counter and
\* queues nothing, returns, and the processing loop goes on.
C6_DisconnectedSilent ==
    [][\A t \in Threads :
         (callback_send(t) /\ ~rxAlive) =>
             /\ stats' = stats
             /\ queue' = queue
             /\ outcome'[cb[t]] = "Disconnected"
             /\ cb'[t] = 0
             /\ thr' = thr]_vars

\* C6: an event was discarded at a disconnected channel.
C6_Witness == \E e \in Events : outcome[e] = "Disconnected"

\* C7 as claimed: once a session has been discarded, none of its backend traces is
\* live and none of its processing threads is running.
C7_DropStopsTrace ==
    pc = "released" => (LiveThreads = {} /\ \A t \in Threads : trace[t] # "live")

\* C8: once stop() has returned success the state is Stopped, the backend was told
\* to stop, no processing thread is running and no callback is in progress.
C8_StopJoins ==
    (ret = [op |-> "stop", res |-> "Ok"] /\ pc = "idle") =>
        /\ state = "Stopped"
        /\ \E i \in 1..Len(backendCalls) :
              backendCalls[i].op \in {"trace.stop", "stop_trace_by_name"}
        /\ LiveThreads = {}
        /\ \A t \in Threads : cb[t] = 0

\* C8: stop() returned success on a session whose callback had handled events.
C8_Witness ==
    /\ ret = [op |-> "stop", res |-> "Ok"]
    /\ pc = "idle"
    /\ stats.received > 0

\* C9 as claimed: the state at the moment a successful start() returns is Running.
C9_RunningAtReturn == [][start_return => state = "Running"]_vars

\* C9 as amended: start() writes Running before it returns; at the return the
\* state is Running, or it is Stopped and the processing thread has already left
\* its backend loop and finished.
C9_RunningWrittenBeforeReturn ==
    [][start_return =>
         \/ state = "Running"
         \/ state = "Stopped" /\ thr[trace_thread] = "done"]_vars

\* C9: start() is about to return, the state is Running and the thread is still
\* in its backend loop.
C9_Witness ==
    pc = "start_written" /\ state = "Running" /\ thr[trace_thread] = "processing"

\* C10 as claimed: with every processing thread finished and no start() or stop()
\* in progress, the state does not read Running.
C10_LoopExitStops ==
    (pc \in {"idle", "released"} /\ LiveThreads = {}
        /\ \E t \in Threads : thr[t] = "done") => state # "Running"


\* C11: once stop() has returned and the queue is empty, a blocking next_event()
\* returns (absent) instead of blocking: the call is able to return.
C11_StopDisconnects ==
    (ret = [op |-> "stop", res |-> "Ok"] /\ pc = "idle" /\ queue = <<>>)
        => ENABLED next_event

\* The last backend call logged by the step just taken.
LastCall == backendCalls[Len(backendCalls)]

\* A start() step that got past its guard.
start_attempt == start_enter /\ ~start_refused(state)

\* C12: when the backend fails to start the trace, start() returns
\* StartTraceFailed, spawns nothing and leaves no processing thread running,
\* and the session state is what it was before the call (so not Running);
\* EtwSession and KernelSession alike.
C12_FailedStartLeavesState ==
    [][(start_attempt /\ ~LastCall'.ok)
          => /\ LastCall'.op = "start"
             /\ ret' = [op |-> "start", res |-> "StartTraceFailed"]
             /\ state' = state /\ state' # "Running"
             /\ thr' = thr /\ LiveThreads' = {}
             /\ pc' = "idle" /\ handle' = handle]_vars

\* start() failed in the backend on a session that had run and stopped before.
C12_Witness ==
    /\ ret = [op |-> "start", res |-> "StartTraceFailed"]
    /\ backendCalls # <<>> /\ ~LastCall.ok
    /\ state = "Stopped" /\ \E t \in Threads : thr[t] = "done"

\* C13: a backend failure to stop the trace is surfaced: stop() returns Ok only
\* if a backend stop call of that stop() succeeded.
C13_StopFailureSurfaced ==
    (ret = [op |-> "stop", res |-> "Ok"] /\ pc = "idle")
        => \E i \in 1..Len(backendCalls) : backendCalls[i].ok

\* C14: with stop_if_exists set, start() attempts the advisory stop by the
\* configured name before it starts the backend trace, and the result of
\* start() follows the backend start alone, whatever the advisory stop
\* answered; with stop_if_exists unset, start() issues no pre-start stop.
C14_AdvisoryStop ==
    [][start_attempt
          => LET n == Len(backendCalls')
             IN  /\ LastCall'.op = "start"
                 /\ \A i \in 1..(n-1) : backendCalls'[i].op = "stop_trace_by_name"
                 /\ stop_if_exists
                       => \E i \in 1..(n-1) : backendCalls'[i].arg = "config.name"
                 /\ ~stop_if_exists => n = 1
                 /\ LastCall'.ok => pc' = "start_spawned" /\ ret' = ret
                 /\ ~LastCall'.ok
                       => /\ pc' = "idle"
                          /\ ret' = [op |-> "start", res |-> "StartTraceFailed"]]_vars

\* start() returned Ok although its advisory stop had failed.
C14_Witness ==
    /\ stop_if_exists /\ kind = "etw"
    /\ ret = [op |-> "start", res |-> "Ok"] /\ pc = "idle"
    /\ Len(backendCalls) = 2 /\ ~backendCalls[1].ok /\ LastCall.ok

\* C15: KernelSession.start() with stop_if_exists set attempts to stop the
\* well-known kernel session name and then the configured name, both before
\* the backend start, the second also when the first failed.
C15_KernelStopsBoth ==
    [][(start_attempt /\ kind = "kernel" /\ stop_if_exists)
          => /\ Len(backendCalls') = 3
             /\ backendCalls'[1].op = "stop_trace_by_name"
             /\ backendCalls'[1].arg = "NT Kernel Logger"
             /\ backendCalls'[2].op = "stop_trace_by_name"
             /\ backendCalls'[2].arg = "config.name"
             /\ backendCalls'[3].op = "start"]_vars

\* The first advisory stop failed and the second was still made.
C15_Witness ==
    /\ kind = "kernel" /\ stop_if_exists /\ Len(backendCalls) = 3
    /\ backendCalls[1].arg = "NT Kernel Logger" /\ ~backendCalls[1].ok
    /\ backendCalls[2].arg = "config.name" /\ backendCalls[3].op = "start"


\* ------------------------------------------------------------------ file reader
\* EtlReader::new without its existence check.
path_missing_unchecked(e) == FALSE
\* `!path.as_ref().exists()`
path_missing(e) == ~e

\* A reader call's record: what was called, how it answered, the events it
\* returned, and how many events the owner had retrieved when it was called.
RRet(op, res, val) == [op |-> op, res |-> res, val |-> val, before |-> Len(got)]

\* EtlReader::new, for an owner that calls the reader's methods ("rust"), an
\* owner that only iterates it, as a `for` loop does ("iter"), and
\* PyEtlReader::new for Python callers ("py").
EtlReader_new ==
    /\ rd.obj = "none" /\ rret.op = "init"
    /\ IF path_missing(path_exists)
       THEN /\ rret' = RRet("new", "FileNotFound", <<>>)
            /\ rd' = rd
       ELSE /\ rret' = RRet("new", "Ok", <<>>)
            /\ \E api \in {"rust", "iter", "py"} : rd' = [NoReader EXCEPT !.obj = api]
    /\ UNCHANGED <<path_exists, replay, chan, rpc, acc, got>>

\* A replay thread can still be spawned within the explored bound.
CanSpawn == \E k \in Replays : replay[k].st = "none"

\* The replay (thread and channel) the next start() creates.
FreshReplay ==
    CHOOSE k \in Replays : replay[k].st = "none" /\ \A j \in 1..(k-1) : replay[j].st # "none"

\* EtlReader::start on the reader r: a new channel whose receiver replaces
\* self.receiver (the old receiver and its buffer are dropped), a new thread
\* whose handle replaces self.thread_handle.  There is no guard.
Start(r) ==
    LET k == FreshReplay
    IN  /\ rd' = [r EXCEPT !.receiver = k, !.thread_handle = k]
        /\ replay' = [replay EXCEPT ![k] = [st |-> "running", pos |-> 0]]
        /\ chan' = [j \in Replays |-> IF j = rd.receiver THEN <<>> ELSE chan[j]]

\* The channel's Sender is gone: start_and_process has returned and the
\* callback owning tx was dropped.
disconnected(k) == replay[k].st \in {"returned", "done"}

\* A receive that never waits (try_recv in place of recv).
recv_never_blocks(k) == FALSE
\* Receiver::recv blocks while the buffer is empty and the sender is alive.
recv_blocks(k) == chan[k] = <<>> /\ ~disconnected(k)

\* What recv / try_recv hands out once it answers: the oldest buffered event,
\* or nothing (no receiver, or nothing buffered).
RecvVal ==
    IF rd.receiver # 0 /\ chan[rd.receiver] # <<>>
    THEN <<Head(chan[rd.receiver])>> ELSE <<>>

\* The effect of that receive on the channel and on what the owner holds.
Taken ==
    /\ chan' = [k \in Replays |-> IF k = rd.receiver /\ chan[k] # <<>>
                                  THEN Tail(chan[k]) ELSE chan[k]]
    /\ got' = got \o RecvVal

\* EtlReader::start called by a Rust owner.
EtlReader_start ==
    /\ rd.obj = "rust" /\ rpc = "idle" /\ CanSpawn
    /\ Start(rd)
    /\ rret' = RRet("start", "Ok", <<>>)
    /\ UNCHANGED <<path_exists, rpc, acc, got>>

\* EtlReader::next_event called by a Rust owner: `receiver.as_ref()?.recv().ok()`.
EtlReader_next_event ==
    /\ rd.obj = "rust" /\ rpc = "idle"
    /\ rd.receiver # 0 => ~recv_blocks(rd.receiver)
    /\ rret' = RRet("next_event", "Ok", RecvVal)
    /\ Taken
    /\ UNCHANGED <<path_exists, rd, replay, rpc, acc>>

\* EtlReader::try_next_event called by a Rust owner.
EtlReader_try_next_event ==
    /\ rd.obj = "rust" /\ rpc = "idle"
    /\ rret' = RRet("try_next_event", "Ok", RecvVal)
    /\ Taken
    /\ UNCHANGED <<path_exists, rd, replay, rpc, acc>>

\* handle.join() returns once the replay thread has finished.
reader_joined(h) == IF h = 0 THEN TRUE ELSE replay[h].st = "done"

\* EtlReader::wait called by a Rust owner: take the handle and join it.
EtlReader_wait ==
    /\ rd.obj = "rust" /\ rpc = "idle"
    /\ reader_joined(rd.thread_handle)
    /\ rd' = [rd EXCEPT !.thread_handle = 0]
    /\ rret' = RRet("wait", "Ok", <<>>)
    /\ UNCHANGED <<path_exists, replay, chan, rpc, acc, got>>

\* Iterator::next starting the reader again once its replay is used up.
Iterator_needs_start_or_drained(r) ==
    \/ r.receiver = 0
    \/ (disconnected(r.receiver) /\ chan[r.receiver] = <<>>)
\* Iterator::next restarting the replay on every call.
Iterator_needs_start_always(r) == TRUE
\* Iterator::next's `if self.receiver.is_none()`.
Iterator_needs_start(r) == r.receiver = 0

\* Iterator::next up to its receive: start the reader if it has no receiver
\* (start() always answers Ok), then enter next_event.
Iterator_next_enter ==
    /\ rd.obj \in {"rust", "iter"} /\ rpc = "idle"
    /\ IF Iterator_needs_start(rd)
       THEN CanSpawn /\ Start(rd)
       ELSE UNCHANGED <<rd, replay, chan>>
    /\ rpc' = "next_recv"
    /\ rret' = RRet("next", "pending", <<>>)
    /\ UNCHANGED <<path_exists, acc, got>>

\* Iterator::next's `self.next_event()`: the blocking receive answers.
Iterator_next_recv ==
    /\ rpc = "next_recv"
    /\ ~recv_blocks(rd.receiver)
    /\ rret' = [rret EXCEPT !.res = "Ok", !.val = RecvVal]
    /\ Taken
    /\ rpc' = "idle"
    /\ UNCHANGED <<path_exists, rd, replay, acc>>

\* PyEtlReader::read_all up to its loop: start the reader unless started.
read_all_enter ==
    /\ rd.obj = "py" /\ rpc = "idle"
    /\ IF rd.started
       THEN UNCHANGED <<rd, replay, chan>>
       ELSE CanSpawn /\ Start([rd EXCEPT !.started = TRUE])
    /\ acc' = <<>>
    /\ rpc' = "read_all_loop"
    /\ rret' = RRet("read_all", "pending", <<>>)
    /\ UNCHANGED <<path_exists, got>>

\* One turn of `while let Some(event) = reader.next_event()`: push the event,
\* or leave the loop on None.
read_all_loop ==
    /\ rpc = "read_all_loop"
    /\ ~recv_blocks(rd.receiver)
    /\ acc' = acc \o RecvVal
    /\ Taken
    /\ rpc' = IF RecvVal = <<>> THEN "read_all_wait" ELSE rpc
    /\ UNCHANGED <<path_exists, rd, replay, rret>>

\* read_all's `reader.wait(); Ok(events)`.
read_all_wait ==
    /\ rpc = "read_all_wait"
    /\ reader_joined(rd.thread_handle)
    /\ rd' = [rd EXCEPT !.thread_handle = 0]
    /\ rret' = [rret EXCEPT !.res = "Ok", !.val = acc]
    /\ rpc' = "idle"
    /\ UNCHANGED <<path_exists, replay, chan, acc, got>>

\* PyEtlReader::__next__: start the reader unless started, then try_next_event.
\* Right after the start the new channel is still empty.
py_next ==
    /\ rd.obj = "py" /\ rpc = "idle"
    /\ IF rd.started
       THEN /\ rret' = RRet("__next__", "Ok", RecvVal)
            /\ Taken
            /\ UNCHANGED <<rd, replay>>
       ELSE /\ CanSpawn /\ Start([rd EXCEPT !.started = TRUE])
            /\ rret' = RRet("__next__", "Ok", <<>>)
            /\ got' = got
    /\ UNCHANGED <<path_exists, rpc, acc>>

\* The replay thread's callback: `let _ = tx.send(event)` for the next event
\* of the file; the send fails silently once the receiver was replaced.
replay_send(k) ==
    /\ replay[k].st = "running" /\ replay[k].pos < FileLen
    /\ replay' = [replay EXCEPT ![k].pos = @ + 1]
    /\ chan' = [chan EXCEPT ![k] = IF rd.receiver = k
                                   THEN Append(@, replay[k].pos + 1) ELSE @]
    /\ UNCHANGED <<path_exists, rd, rpc, acc, rret, got>>

\* start_and_process returns (file exhausted, or a backend error before that,
\* its result being discarded); the callback and its tx are dropped.
replay_return(k) ==
    /\ replay[k].st = "running"
    /\ replay' = [replay EXCEPT ![k].st = "returned"]
    /\ UNCHANGED <<path_exists, rd, chan, rpc, acc, rret, got>>

\* The replay thread's closure ends: the thread is finished.
replay_done(k) ==
    /\ replay[k].st = "returned"
    /\ replay' = [replay EXCEPT ![k].st = "done"]
    /\ UNCHANGED <<path_exists, rd, chan, rpc, acc, rret, got>>

ReplayStep == \E k \in Replays : replay_send(k) \/ replay_return(k) \/ replay_done(k)

RInit ==
    /\ SessionIdle
    /\ \E e \in BOOLEAN : ReaderInit(e)
    /\ TrackerIdle /\ ProbeIdle
    /\ FilterProbeIdle /\ KernelConfigInit /\ PidFilterIdle
    /\ TimestampIdle /\ ChannelInit

RNext ==
    \/ EtlReader_new /\ UNCHANGED not_reader
    \/ EtlReader_start /\ UNCHANGED not_reader
    \/ EtlReader_next_event /\ UNCHANGED not_reader
    \/ EtlReader_try_next_event /\ UNCHANGED not_reader
    \/ EtlReader_wait /\ UNCHANGED not_reader
    \/ read_all_enter /\ UNCHANGED not_reader
    \/ read_all_loop /\ UNCHANGED not_reader
    \/ read_all_wait /\ UNCHANGED not_reader
    \/ py_next /\ UNCHANGED not_reader
    \/ Iterator_next_enter /\ UNCHANGED not_reader
    \/ Iterator_next_recv /\ UNCHANGED not_reader
    \/ \E k \in Replays : replay_send(k) /\ UNCHANGED not_reader
    \/ \E k \in Replays : replay_return(k) /\ UNCHANGED not_reader
    \/ \E k \in Replays : replay_done(k) /\ UNCHANGED not_reader

SpecReader == RInit /\ [][RNext]_allvars

\* The replay threads and an owner inside read_all or inside Iterator::next
\* keep running.
SpecReaderFair ==
    /\ SpecReader
    /\ WF_allvars(ReplayStep /\ UNCHANGED not_reader)
    /\ WF_allvars((read_all_loop \/ read_all_wait) /\ UNCHANGED not_reader)
    /\ WF_allvars(Iterator_next_recv /\ UNCHANGED not_reader)

ReaderTypeOK ==
    /\ rd.obj \in {"none", "rust", "iter", "py"}
    /\ rd.receiver \in 0..MaxReplays /\ rd.thread_handle \in 0..MaxReplays
    /\ \A k \in Replays : /\ replay[k].st \in {"none", "running", "returned", "done"}
                          /\ replay[k].pos \in 0..FileLen
                          /\ Len(chan[k]) <= FileLen
    /\ rpc \in {"idle", "read_all_loop", "read_all_wait", "next_recv"}

\* C16: EtlReader::new on a path that does not exist answers FileNotFound and
\* leaves nothing behind: no reader object, no channel, no replay thread.
C16_NewOnMissingPath ==
    (~path_exists /\ rret.op # "init")
        => /\ rret.op = "new" /\ rret.res = "FileNotFound"
           /\ rd = NoReader
           /\ \A k \in Replays : replay[k].st = "none" /\ chan[k] = <<>>

\* new() has been called on a missing path.
C16_Witness == ~path_exists /\ rret.op = "new" /\ rret.res = "FileNotFound"

\* The current replay has been started and is exhausted: the whole file was
\* sent, the thread has finished and the channel is drained.
Exhausted ==
    /\ rd.receiver # 0
    /\ replay[rd.receiver] = [st |-> "done", pos |-> FileLen]
    /\ chan[rd.receiver] = <<>>

\* C17: a further start() on an exhausted reader fails, spawns no replay
\* thread and does not reset the reader.
C17_NoSecondReplay ==
    [][(EtlReader_start /\ Exhausted)
          => rret'.res # "Ok" /\ replay' = replay /\ rd' = rd]_rvars

\* What holds while the last reader call is a read_all() that has returned.
C18_Returned ==
    (rret.op = "read_all" /\ rret.res = "Ok")
        => /\ replay[rd.receiver].st = "done"
           /\ rd.thread_handle = 0
           /\ chan[rd.receiver] = <<>>
           /\ got = [i \in 1..replay[rd.receiver].pos |-> i]
           /\ rret.val = SubSeq(got, rret.before + 1, Len(got))

\* C18: read_all() returns only after the replay thread has finished and its
\* handle was taken and joined; with what the owner had retrieved before, its
\* result is every event the replay sent, in production order and each once;
\* and a read_all() in progress returns, the replay thread terminating.
C18_ReadAll == []C18_Returned /\ ((rpc # "idle") ~> (rpc = "idle"))

\* read_all() returned the second event after __next__ had retrieved the first.
C18_Witness ==
    /\ rret.op = "read_all" /\ rret.res = "Ok"
    /\ rret.before = 1 /\ rret.val = <<2>>


\* ------------------------------------------------------------------ stats tracker
\* The five atomic counters of a StatsTracker.
Counters == {"events_received", "events_processed", "events_lost",
             "buffers_lost", "buffers_read"}

\* Sum of the counters (bounds the exploration).
Recorded ==
    tracker.events_received + tracker.events_processed + tracker.events_lost
        + tracker.buffers_lost + tracker.buffers_read

\* Buffer configurations explored: (buffer_size_kb, buffers_allocated).
BufferConfigs == {<<64, 64>>, <<128, 32>>}

\* fetch_add(n) on the counter c.
fetch_add(c, n) ==
    /\ Recorded + n <= MaxRecords
    /\ tracker' = [tracker EXCEPT ![c] = @ + n]
    /\ UNCHANGED <<now, snap, was_reset>>

StatsTracker_record_event_received == fetch_add("events_received", 1)

StatsTracker_record_event_processed == fetch_add("events_processed", 1)

StatsTracker_record_events_lost == \E count \in 1..MaxRecords : fetch_add("events_lost", count)

StatsTracker_record_buffers_lost == \E count \in 1..MaxRecords : fetch_add("buffers_lost", count)

StatsTracker_record_buffer_read == fetch_add("buffers_read", 1)

\* A reset that also restarts the clock (start_time = Instant::now()).
StatsTracker_reset_restarting_clock ==
    /\ tracker' = [c \in DOMAIN tracker |->
                     IF c \in Counters THEN 0
                     ELSE IF c = "start_time" THEN now ELSE tracker[c]]
    /\ was_reset' = TRUE
    /\ UNCHANGED <<now, snap>>

\* StatsTracker::reset: store(0) on each of the five counters, nothing else.
StatsTracker_reset ==
    /\ tracker' = [c \in DOMAIN tracker |-> IF c \in Counters THEN 0 ELSE tracker[c]]
    /\ was_reset' = TRUE
    /\ UNCHANGED <<now, snap>>

\* StatsTracker::snapshot: the counters and the buffer configuration as they
\* are, duration = start_time.elapsed(), events_per_second = processed /
\* duration (as a fraction) or 0 at duration 0.
StatsTracker_snapshot ==
    /\ LET duration == now - tracker.start_time
       IN  snap' = [taken |-> TRUE, at |-> now, reset_before |-> was_reset,
                    events_received |-> tracker.events_received,
                    events_processed |-> tracker.events_processed,
                    events_lost |-> tracker.events_lost,
                    buffers_lost |-> tracker.buffers_lost,
                    buffers_read |-> tracker.buffers_read,
                    buffer_size_kb |-> tracker.buffer_size_kb,
                    buffers_allocated |-> tracker.buffers_allocated,
                    duration_secs |-> duration,
                    events_per_second |->
                        IF duration > 0 THEN <<tracker.events_processed, duration>>
                        ELSE <<0, 1>>]
    /\ UNCHANGED <<tracker, now, was_reset>>

\* Time passes.
Tick ==
    /\ now < MaxTime
    /\ now' = now + 1
    /\ UNCHANGED <<tracker, snap, was_reset>>

SInit ==
    /\ SessionIdle /\ ReaderIdle
    /\ \E b \in BufferConfigs : TrackerInit(b[1], b[2])
    /\ ProbeIdle
    /\ FilterProbeIdle /\ KernelConfigInit /\ PidFilterIdle
    /\ TimestampIdle /\ ChannelInit

SNext ==
    \/ StatsTracker_record_event_received /\ UNCHANGED not_stats
    \/ StatsTracker_record_event_processed /\ UNCHANGED not_stats
    \/ StatsTracker_record_events_lost /\ UNCHANGED not_stats
    \/ StatsTracker_record_buffers_lost /\ UNCHANGED not_stats
    \/ StatsTracker_record_buffer_read /\ UNCHANGED not_stats
    \/ StatsTracker_reset /\ UNCHANGED not_stats
    \/ StatsTracker_snapshot /\ UNCHANGED not_stats
    \/ Tick /\ UNCHANGED not_stats

SpecStats == SInit /\ [][SNext]_allvars

\* Every counter of the tracker is zero.
AllZero == \A c \in Counters : tracker[c] = 0

\* C19: reset() sets the five counters to zero and leaves the start instant,
\* the buffer size and the buffer count as they were, so every snapshot, also
\* one taken after a reset, reports the time elapsed since construction.
C19_Reset ==
    /\ [](tracker.start_time = 0 /\ (snap.taken => snap.duration_secs = snap.at))
    /\ [][StatsTracker_reset
             => /\ AllZero'
                /\ tracker'.start_time = tracker.start_time
                /\ tracker'.buffer_size_kb = tracker.buffer_size_kb
                /\ tracker'.buffers_allocated = tracker.buffers_allocated]_svars

\* A snapshot taken after a reset, at a later instant than the construction,
\* with every counter zero.
C19_Witness ==
    /\ snap.taken /\ snap.reset_before /\ snap.duration_secs > 0
    /\ snap.events_received = 0 /\ snap.events_lost = 0
    /\ AllZero


\* ------------------------------------------------------------------ provider

\* ------------------------------------------------------------------ filters
\* Filter lists of a FilterBuilder explored.
MaxFilters == 2

\* EventFilter::matches whose EventIds arm also looks at the opcode.
EventFilter_matches_ids_at_opcode_0(f, event_id, opcode) ==
    CASE f.type = "EventIds"        -> event_id \in f.ids /\ opcode = 0
      [] f.type = "Opcodes"         -> opcode \in f.ops
      [] f.type = "ExcludeEventIds" -> event_id \notin f.ids
      [] f.type = "Custom"          -> <<event_id, opcode>> \in f.accepts
      [] f.type \in {"ProcessId", "ProcessName"} -> TRUE

\* EventFilter::matches whose ExcludeEventIds arm falls into the `true` arm.
EventFilter_matches_exclude_ignored(f, event_id, opcode) ==
    CASE f.type = "EventIds"        -> event_id \in f.ids
      [] f.type = "Opcodes"         -> opcode \in f.ops
      [] f.type = "Custom"          -> <<event_id, opcode>> \in f.accepts
      [] f.type \in {"ProcessId", "ProcessName", "ExcludeEventIds"} -> TRUE

\* EventFilter::matches(event_id, opcode).  A Custom filter's closure is given
\* by the set of (id, opcode) pairs it accepts.
EventFilter_matches(f, event_id, opcode) ==
    CASE f.type = "EventIds"        -> event_id \in f.ids
      [] f.type = "Opcodes"         -> opcode \in f.ops
      [] f.type = "ExcludeEventIds" -> event_id \notin f.ids
      [] f.type = "Custom"          -> <<event_id, opcode>> \in f.accepts
      [] f.type \in {"ProcessId", "ProcessName"} -> TRUE

\* matches_event without the keywords_any check.
matches_event_ignoring_keywords_any(p, event_id, opcode, level, keywords) ==
    IF level > p.level THEN FALSE
    ELSE IF p.keywords_all # Zero /\ And(keywords, p.keywords_all) # p.keywords_all
    THEN FALSE
    ELSE \A i \in 1..Len(p.filters) : EventFilter_matches(p.filters[i], event_id, opcode)

\* EtwProvider::matches_event.
matches_event(p, event_id, opcode, level, keywords) ==
    IF level > p.level THEN FALSE
    ELSE IF p.keywords_any # Zero /\ And(keywords, p.keywords_any) = Zero THEN FALSE
    ELSE IF p.keywords_all # Zero /\ And(keywords, p.keywords_all) # p.keywords_all
    THEN FALSE
    ELSE \A i \in 1..Len(p.filters) : EventFilter_matches(p.filters[i], event_id, opcode)

\* Filter lists explored.
FilterLists ==
    { <<>>,
      <<[type |-> "EventIds", ids |-> {1}]>>,
      <<[type |-> "ExcludeEventIds", ids |-> {1}], [type |-> "Opcodes", ops |-> {0}]>>,
      <<[type |-> "ProcessId", pid |-> 4]>>,
      <<[type |-> "Custom", accepts |-> {<<2, 1>>}]>> }

\* Provider levels explored (Always, Warning, Verbose) and the providers.
ProviderLevels == {0, 3, 5}
Providers ==
    [level : ProviderLevels, keywords_any : SUBSET KeywordBits,
     keywords_all : SUBSET KeywordBits, filters : FilterLists]

\* Event criteria explored: event id, opcode, level, keywords.
EventCriteria == {1, 2} \X {0, 1} \X (0..6) \X (SUBSET KeywordBits)

PInit ==
    /\ SessionIdle /\ ReaderIdle /\ TrackerIdle
    /\ \E p \in Providers, ev \in EventCriteria : ProbeInit(p, ev)
    /\ FilterProbeIdle /\ KernelConfigInit /\ PidFilterIdle
    /\ TimestampIdle /\ ChannelInit

\* provider.matches_event(event_id, opcode, level, keywords)
matches_event_call ==
    /\ ~probe.called
    /\ probe' = [probe EXCEPT !.called = TRUE,
                              !.result = matches_event(probe.provider, probe.event_id,
                                                       probe.opcode, probe.level,
                                                       probe.keywords)]

PNext == matches_event_call /\ UNCHANGED not_provider

SpecProvider == PInit /\ [][PNext]_allvars

\* C20: matches_event is true iff level <= provider.level, and keywords_any is
\* the all-ones sentinel or shares a bit with the keywords, and keywords_all is
\* 0 or is contained in the keywords, and every attached filter matches.
C20_MatchesEvent ==
    probe.called
        => (probe.result
              <=> /\ probe.level <= probe.provider.level
                  /\ \/ probe.provider.keywords_any = AllOnes
                     \/ And(probe.keywords, probe.provider.keywords_any) # Zero
                  /\ \/ probe.provider.keywords_all = Zero
                     \/ And(probe.keywords, probe.provider.keywords_all)
                            = probe.provider.keywords_all
                  /\ \A i \in 1..Len(probe.provider.filters) :
                        EventFilter_matches(probe.provider.filters[i],
                                            probe.event_id, probe.opcode))

\* The bit positions set in the number n (n < 2^8): 0x0F is {0, 1, 2, 3}.
Bits(n) == {i \in 0..7 : (n \div (2^i)) % 2 = 1}

\* C21: a provider with the default keyword masks, no filters and level
\* Warning matches every event of level 0..3 and rejects level 4 and 5, for
\* every event id, opcode and keywords value, keywords = 0 included.
C21_WarningLevel ==
    (probe.called /\ probe.provider = [by_guid EXCEPT !.level = 3] /\ probe.level <= 5)
        => (probe.result <=> probe.level <= 3)

\* C22: a provider with keywords_any = m, m neither 0 nor all ones, level
\* Verbose, keywords_all = 0 and no filters matches an event of level <= 5
\* iff keywords & m # 0; with m = 0x0F it matches 0x01 and 0x08 and rejects
\* 0x10.
C22_KeywordsAny ==
    /\ (/\ probe.called
        /\ probe.provider.keywords_any \notin {Zero, AllOnes}
        /\ probe.provider = [by_guid EXCEPT !.keywords_any = probe.provider.keywords_any]
        /\ probe.level <= 5)
           => (probe.result
                 <=> And(probe.keywords, probe.provider.keywords_any) # Zero)
    /\ LET p == [by_guid EXCEPT !.keywords_any = Bits(15)]
       IN  /\ matches_event(p, 1, 0, 0, Bits(1))
           /\ matches_event(p, 1, 0, 0, Bits(8))
           /\ ~matches_event(p, 1, 0, 0, Bits(16))

\* An event rejected because its keywords share no bit with the mask.
C22_Witness ==
    /\ probe.called /\ ~probe.result
    /\ probe.provider = [by_guid EXCEPT !.keywords_any = {0}]
    /\ probe.keywords = {1} /\ probe.level <= 5


\* ------------------------------------------------------------------ filter calls
\* str::to_lowercase on a name given as a sequence of characters.
to_lowercase(s) == [i \in 1..Len(s) |-> CASE s[i] = "C" -> "c" [] s[i] = "F" -> "f"
                                         [] OTHER -> s[i]]

\* str::contains: n occurs in h as a substring.
contains(h, n) ==
    /\ Len(n) <= Len(h)
    /\ \E i \in 0..(Len(h) - Len(n)) : SubSeq(h, i + 1, i + Len(n)) = n

\* EventFilter::matches_process(pid, process_name); process_name is an
\* Option: [some |-> FALSE] or [some |-> TRUE, s |-> the name].
EventFilter_matches_process(f, pid, process_name) ==
    CASE f.type = "ProcessId"   -> f.pid = pid
      [] f.type = "ProcessName" ->
            IF process_name.some
            THEN contains(to_lowercase(process_name.s), to_lowercase(f.name))
            ELSE FALSE
      [] OTHER -> TRUE

\* The loop of FilterBuilder::matches_all from the i-th filter on: false at
\* the first filter that fails either check.
RECURSIVE matches_all_from(_, _, _, _, _, _)
matches_all_from(fs, i, event_id, opcode, pid, process_name) ==
    IF i > Len(fs) THEN TRUE
    ELSE IF ~EventFilter_matches(fs[i], event_id, opcode) THEN FALSE
    ELSE IF ~EventFilter_matches_process(fs[i], pid, process_name) THEN FALSE
    ELSE matches_all_from(fs, i + 1, event_id, opcode, pid, process_name)

\* matches_all that checks the events' side of each filter only.
matches_all_events_only(fs, event_id, opcode, pid, process_name) ==
    \A i \in 1..Len(fs) : EventFilter_matches(fs[i], event_id, opcode)

\* FilterBuilder::matches_all(event_id, opcode, pid, process_name).
matches_all(fs, event_id, opcode, pid, process_name) ==
    matches_all_from(fs, 1, event_id, opcode, pid, process_name)

\* Filters explored.
SampleFilters ==
    { [type |-> "EventIds", ids |-> {1, 2, 3}],
      [type |-> "EventIds", ids |-> {}],
      [type |-> "EventIds", ids |-> {100}],
      [type |-> "Opcodes", ops |-> {10}],
      [type |-> "ExcludeEventIds", ids |-> {100}],
      [type |-> "ExcludeEventIds", ids |-> {1, 2, 3}],
      [type |-> "ProcessId", pid |-> 1000],
      [type |-> "ProcessName", name |-> <<"C">>],
      [type |-> "Custom", accepts |-> {<<4, 0>>}] }

\* The filter lists a FilterBuilder can hold, up to MaxFilters filters.
BuilderLists == UNION {[1..n -> SampleFilters] : n \in 0..MaxFilters}

\* Arguments explored: event id, opcode, process id, process name.
FilterArgs ==
    {1, 4, 100} \X {0, 10} \X {1000, 2000}
        \X {[some |-> FALSE], [some |-> TRUE, s |-> <<"f", "c">>],
            [some |-> TRUE, s |-> <<"f">>]}

FInit ==
    /\ SessionIdle /\ ReaderIdle /\ TrackerIdle /\ ProbeIdle
    /\ \E fs \in BuilderLists, ev \in FilterArgs : FilterProbeInit(fs, ev)
    /\ KernelConfigInit /\ PidFilterIdle
    /\ TimestampIdle /\ ChannelInit

\* filters[i].matches(event_id, opcode)
EventFilter_matches_call(i) ==
    /\ fprobe.op = "none"
    /\ fprobe' = [fprobe EXCEPT !.op = "matches", !.index = i,
                    !.result = EventFilter_matches(fprobe.filters[i], fprobe.event_id,
                                                   fprobe.opcode)]

\* filters[i].matches_process(pid, process_name)
EventFilter_matches_process_call(i) ==
    /\ fprobe.op = "none"
    /\ fprobe' = [fprobe EXCEPT !.op = "matches_process", !.index = i,
                    !.result = EventFilter_matches_process(fprobe.filters[i], fprobe.pid,
                                                           fprobe.process_name)]

\* builder.matches_all(event_id, opcode, pid, process_name)
matches_all_call ==
    /\ fprobe.op = "none"
    /\ fprobe' = [fprobe EXCEPT !.op = "matches_all",
                    !.result = matches_all(fprobe.filters, fprobe.event_id, fprobe.opcode,
                                           fprobe.pid, fprobe.process_name)]

FNext ==
    \/ \E i \in 1..Len(fprobe.filters) : EventFilter_matches_call(i) /\ UNCHANGED not_filter
    \/ \E i \in 1..Len(fprobe.filters) :
          EventFilter_matches_process_call(i) /\ UNCHANGED not_filter
    \/ matches_all_call /\ UNCHANGED not_filter

SpecFilter == FInit /\ [][FNext]_allvars

\* The filter a matches / matches_process call was made on.
Called == fprobe.filters[fprobe.index]

\* C23: matches_all is true iff every contained filter's matches and
\* matches_process both are; with EventIds({1,2,3}) and ProcessId(1000) it is
\* true for event 1 of process 1000 at any opcode, false for process 2000 and
\* false for event 4.
C23_MatchesAll ==
    /\ fprobe.op = "matches_all"
          => (fprobe.result
                <=> \A i \in 1..Len(fprobe.filters) :
                       /\ EventFilter_matches(fprobe.filters[i], fprobe.event_id,
                                              fprobe.opcode)
                       /\ EventFilter_matches_process(fprobe.filters[i], fprobe.pid,
                                                      fprobe.process_name))
    /\ LET b == <<[type |-> "EventIds", ids |-> {1, 2, 3}],
                  [type |-> "ProcessId", pid |-> 1000]>>
       IN  \A o \in {0, 10}, n \in {[some |-> FALSE], [some |-> TRUE, s |-> <<"f">>]} :
              /\ matches_all(b, 1, o, 1000, n)
              /\ ~matches_all(b, 1, o, 2000, n)
              /\ ~matches_all(b, 4, o, 1000, n)

\* matches_all answered false for an event every filter accepts, because of
\* the process id alone.
C23_Witness ==
    /\ fprobe.op = "matches_all" /\ ~fprobe.result
    /\ fprobe.filters = <<[type |-> "EventIds", ids |-> {1, 2, 3}],
                          [type |-> "ProcessId", pid |-> 1000]>>
    /\ fprobe.event_id = 1 /\ fprobe.pid = 2000

\* C24: EventIds(S).matches(id, opcode) is true iff id is in S, whatever the
\* opcode; with S = {1,2,3} it is true for 2 and false for 4.
C24_EventIds ==
    /\ (fprobe.op = "matches" /\ Called.type = "EventIds")
          => (fprobe.result <=> fprobe.event_id \in Called.ids)
    /\ \A o \in {0, 10} :
          /\ EventFilter_matches([type |-> "EventIds", ids |-> {1, 2, 3}], 2, o)
          /\ ~EventFilter_matches([type |-> "EventIds", ids |-> {1, 2, 3}], 4, o)

\* EventIds({1,2,3}) asked about event 1 at an opcode other than 0.
C24_Witness ==
    /\ fprobe.op = "matches" /\ Called = [type |-> "EventIds", ids |-> {1, 2, 3}]
    /\ fprobe.event_id = 1 /\ fprobe.opcode = 10 /\ fprobe.result

\* C25: ExcludeEventIds(S).matches(id, opcode) is the negation of
\* EventIds(S).matches(id, opcode): false exactly when id is in S; with
\* S = {100} it is false for 100 and true for every other id.
C25_ExcludeNegatesInclude ==
    /\ (fprobe.op = "matches" /\ Called.type = "ExcludeEventIds")
          => /\ fprobe.result
                  = ~EventFilter_matches([type |-> "EventIds", ids |-> Called.ids],
                                         fprobe.event_id, fprobe.opcode)
             /\ ~fprobe.result <=> fprobe.event_id \in Called.ids
    /\ \A n \in {1, 4, 100}, o \in {0, 10} :
          EventFilter_matches([type |-> "ExcludeEventIds", ids |-> {100}], n, o)
              <=> n # 100

\* ExcludeEventIds({100}) asked about event 100.
C25_Witness ==
    /\ fprobe.op = "matches" /\ Called = [type |-> "ExcludeEventIds", ids |-> {100}]
    /\ fprobe.event_id = 100 /\ ~fprobe.result

\* C26: the state of an EtwSession or KernelSession is never Error: it is
\* Created, Running or Stopped in every reachable state, it is not Created
\* once a start() has returned Ok, and once it has left Created it never is
\* Created again.
C26_NoErrorState ==
    /\ [](/\ state \in {"Created", "Running", "Stopped"}
          /\ (okStarts > 0 \/ ret = [op |-> "start", res |-> "Ok"]) => state # "Created")
    /\ [][state # "Created" => state' # "Created"]_vars

\* A session that ran, delivered an event, was stopped and discarded.
C26_Witness ==
    /\ state = "Stopped" /\ pc = "released" /\ delivered # <<>>
    /\ \E t \in Threads : thr[t] = "done"


\* ---------------------------------------------------------------------------
\* The kernel session's category mask (kernel.rs).  A mask is the set of its
\* flags; `kcfg.enabled` holds the flags of the provider that start() hands to
\* the backend trace and `kcfg.at_start` the mask at the time of that call,
\* each as a one-element sequence (<<>> when there is none).
\* ---------------------------------------------------------------------------

\* The flags of KernelEventCategory the model distinguishes.
KernelFlags == {"Process", "Thread", "ImageLoad", "DiskIo"}

\* KernelEventCategory: the single flags and the combination AllBasic.
KernelEventCategory == KernelFlags \cup {"AllBasic"}

\* KernelEventCategory::to_flags.
to_flags(category) == IF category = "AllBasic" THEN AllBasic ELSE {category}

\* enable_category: `self.config.categories |= category.to_flags()`.
KernelSession_enable_category(category) ==
    kcfg' = [kcfg EXCEPT !.categories = @ \cup to_flags(category),
                         !.ret = "enable_category"]

\* set_categories: `self.config.categories = flags`.
KernelSession_set_categories(flags) ==
    kcfg' = [kcfg EXCEPT !.categories = flags, !.ret = "set_categories"]

\* start() refused while Running.
KernelSession_start_refused ==
    /\ kcfg.state = "Running"
    /\ kcfg' = [kcfg EXCEPT !.ret = "SessionAlreadyRunning"]

\* start(): the trace is built from `KernelProvider::new().add_callback(..)`.
\* No expression of the build reads `self.config.categories`, so the flags of
\* the enabled provider are whatever the backend's constructor gives, chosen
\* here without regard to the mask.
KernelSession_start ==
    /\ kcfg.state # "Running"
    /\ \E provider_flags \in SUBSET KernelFlags :
          kcfg' = [kcfg EXCEPT !.state = "Running", !.enabled = <<provider_flags>>,
                               !.at_start = <<kcfg.categories>>, !.ret = "start"]

\* start() whose `build()` fails: StartTraceFailed, nothing else changes.
KernelSession_start_failed ==
    /\ kcfg.state # "Running"
    /\ kcfg' = [kcfg EXCEPT !.ret = "StartTraceFailed"]

\* stop() of a running session: the backend trace is gone.
KernelSession_stop ==
    /\ kcfg.state = "Running"
    /\ kcfg' = [kcfg EXCEPT !.state = "Stopped", !.enabled = <<>>, !.ret = "stop"]

KInit ==
    /\ SessionIdle /\ ReaderIdle /\ TrackerIdle /\ ProbeIdle
    /\ FilterProbeIdle /\ KernelConfigInit /\ PidFilterIdle
    /\ TimestampIdle /\ ChannelInit

KNext ==
    \/ (\E category \in KernelEventCategory : KernelSession_enable_category(category))
          /\ UNCHANGED not_kernel_config
    \/ (\E flags \in SUBSET KernelFlags : KernelSession_set_categories(flags))
          /\ UNCHANGED not_kernel_config
    \/ KernelSession_start_refused /\ UNCHANGED not_kernel_config
    \/ KernelSession_start /\ UNCHANGED not_kernel_config
    \/ KernelSession_start_failed /\ UNCHANGED not_kernel_config
    \/ KernelSession_stop /\ UNCHANGED not_kernel_config

SpecKernelConfig == KInit /\ [][KNext]_allvars


KernelConfigTypeOK ==
    /\ kcfg.categories \in SUBSET KernelFlags
    /\ kcfg.state \in {"Created", "Running", "Stopped"}
    /\ Len(kcfg.enabled) <= 1 /\ Len(kcfg.at_start) <= 1
    /\ \A i \in DOMAIN kcfg.enabled : kcfg.enabled[i] \subseteq KernelFlags
    /\ \A i \in DOMAIN kcfg.at_start : kcfg.at_start[i] \subseteq KernelFlags
    /\ (kcfg.state = "Running") <=> (kcfg.enabled # <<>>)
\* C27: while the backend kernel trace started by start() runs, the flags it
\* is enabled for are exactly the session's category mask at the time of the
\* call.
C27_EnabledIsMask ==
    kcfg.state = "Running" => kcfg.enabled = kcfg.at_start


\* ---------------------------------------------------------------------------
\* A session whose provider carries one ProcessId(p) filter (session.rs
\* 146-236).  `pf.backend_filters` is the list of ByPids filters start() added
\* to the backend provider; an event is the process id found in its header
\* (`record.process_id()`); `pf.queue` is the channel and `pf.delivered` what
\* the consumer received.
\* ---------------------------------------------------------------------------

\* Events the backend produces while the session runs.
MaxPidEvents == 3

\* u16::MAX, the widest process id the backend filter takes.
U16Max == 65535

\* Process ids given to the filter, on both sides of U16Max.
FilterPids == {1000, 65535, 65536, 70000}

\* Process ids of the events the providers emit.
EventPids == {1000, 65536, 70000}

\* `u16::try_from(*pid)` is Ok.
fits_u16(pid) == pid <= U16Max

\* The filter translation of start(): `EventFilter::ProcessId(pid)` becomes
\* `ByPids(vec![pid16])` if the id fits in 16 bits and nothing otherwise.
translate_ProcessId(pid) == IF fits_u16(pid) THEN <<{pid}>> ELSE <<>>

\* The backend calls the provider's callback for the events that pass every
\* filter added to the provider.
backend_passes(filters, event_pid) ==
    \A i \in DOMAIN filters : event_pid \in filters[i]

\* start() of the session: the filters are translated, the trace starts.
PidSession_start ==
    /\ pf.state = "Created"
    /\ pf' = [pf EXCEPT !.state = "Running", !.ret = "Ok",
                        !.backend_filters = translate_ProcessId(pf.pid)]

\* start() whose backend start fails, whatever the filter.
PidSession_start_failed ==
    /\ pf.state = "Created"
    /\ pf' = [pf EXCEPT !.ret = "StartTraceFailed"]

\* A provider emits an event of process event_pid.  If the backend filter lets
\* it through, the callback closure parses it and try_sends it: the closure
\* holds no filter and compares no process id (session.rs 160-181).
PidSession_callback(event_pid) ==
    /\ pf.state = "Running"
    /\ pf.emitted < MaxPidEvents
    /\ pf' = [pf EXCEPT !.emitted = @ + 1,
                        !.queue = IF /\ backend_passes(pf.backend_filters, event_pid)
                                     /\ Len(pf.queue) < Capacity
                                  THEN Append(@, event_pid)
                                  ELSE @]

\* The consumer receives the oldest queued event.
PidSession_next_event ==
    /\ pf.queue # <<>>
    /\ pf' = [pf EXCEPT !.queue = Tail(@), !.delivered = Append(@, Head(pf.queue))]

\* stop() of the running session.
PidSession_stop ==
    /\ pf.state = "Running"
    /\ pf' = [pf EXCEPT !.state = "Stopped", !.ret = "Ok"]

PidInit ==
    /\ SessionIdle /\ ReaderIdle /\ TrackerIdle /\ ProbeIdle
    /\ FilterProbeIdle /\ KernelConfigInit
    /\ \E p \in FilterPids : PidFilterInit(p)
    /\ TimestampIdle /\ ChannelInit

PidNext ==
    \/ PidSession_start /\ UNCHANGED not_pid_filter
    \/ PidSession_start_failed /\ UNCHANGED not_pid_filter
    \/ (\E event_pid \in EventPids : PidSession_callback(event_pid))
          /\ UNCHANGED not_pid_filter
    \/ PidSession_next_event /\ UNCHANGED not_pid_filter
    \/ PidSession_stop /\ UNCHANGED not_pid_filter

SpecPidFilter == PidInit /\ [][PidNext]_allvars

PidFilterTypeOK ==
    /\ pf.pid \in FilterPids
    /\ pf.state \in {"Created", "Running", "Stopped"}
    /\ pf.emitted \in 0..MaxPidEvents
    /\ Len(pf.queue) <= Capacity
    /\ \A i \in DOMAIN pf.queue : pf.queue[i] \in EventPids
    /\ \A i \in DOMAIN pf.delivered : pf.delivered[i] \in EventPids
    /\ (fits_u16(pf.pid) /\ pf.state # "Created") => pf.backend_filters = <<{pf.pid}>>

\* C28: a session whose ProcessId(p) filter has p > 65535 starts with the
\* filter left out of the backend, and every event it delivers to the consumer
\* has process_id = p.
C28_WidePidRechecked ==
    pf.pid > U16Max =>
        /\ pf.backend_filters = <<>>
        /\ \A i \in DOMAIN pf.delivered : pf.delivered[i] = pf.pid


\* ------------------------------------------------------------------ reader iteration
\* The events the replay k has produced, in production order.
Produced(k) == [i \in 1..replay[k].pos |-> i]

\* What holds of a reader that is only iterated.
C29_Iterated ==
    rd.obj = "iter" =>
        /\ \A k \in Replays : k > 1 => replay[k].st = "none"
        /\ rret.op = "new" => (rd.receiver = 0 /\ \A k \in Replays : replay[k].st = "none")
        /\ rd.receiver # 0 => got \o chan[rd.receiver] = Produced(rd.receiver)
        /\ (rret.op = "next" /\ rret.res = "Ok" /\ rret.val = <<>>)
              => /\ disconnected(rd.receiver)
                 /\ got = Produced(rd.receiver)

C30_EndOnlyWhenExhausted ==
    (rd.obj = "py" /\ rret.op = "__next__" /\ rret.res = "Ok" /\ rret.val = <<>>)
        => (disconnected(rd.receiver) /\ chan[rd.receiver] = <<>>)


\* ------------------------------------------------------------------ frame of the counters
\* A step of one of the session's methods: start(), stop(), the three
\* receives, stats() and is_running().
OwnerCall ==
    \/ start_enter \/ start_set_running \/ start_return
    \/ stop_enter \/ stop_join
    \/ next_event \/ next_event_timeout \/ try_next_event
    \/ session_stats \/ is_running

\* A step of the event callback.
CallbackStep == \E t \in Threads : callback_enter(t) \/ callback_send(t)

\* The step changes the channel's content otherwise than by taking its oldest
\* event out: something was sent into it.
Enqueues == queue' # queue /\ (IF queue = <<>> THEN TRUE ELSE queue' # Tail(queue))

\* C31: no step of start(), stop(), next_event(), next_event_timeout(),
\* try_next_event(), stats() or is_running() changes the received, processed
\* or lost counter or enqueues an event; every step that does is a step of
\* the event callback.
C31_OnlyCallbackCounts ==
    /\ [][OwnerCall => (stats' = stats /\ ~Enqueues)]_vars
    /\ [][(stats' # stats \/ Enqueues) => CallbackStep]_vars

\* A stop() has returned on a session whose callback counted received,
\* processed and lost events, with events both consumed and still queued.
C31_Witness ==
    /\ pc = "idle" /\ ret = [op |-> "stop", res |-> "Ok"]
    /\ stats.lost > 0 /\ stats.processed > 1
    /\ delivered # <<>> /\ queue # <<>>


\* ------------------------------------------------------------------ timestamps
\* parse_event_record's conversion of record.raw_timestamp() (session.rs
\* 345-354), with Rust's integer semantics.

\* 100 ns ticks per second: the divisor 10_000_000.
TICKS_PER_SEC == 10000000

\* The base of the two limbs a u32 is held in.
U16Base == 65536

\* chrono's timestamp_opt takes a nanosecond part below 2_000_000_000 only.
NANOS_LIMIT == 2000000000

\* Rust's `/` on i64: the quotient truncated toward zero.
rust_div(a, b) == IF a >= 0 THEN a \div b ELSE -((-a) \div b)

\* Rust's `%` on i64: the remainder has the sign of the dividend.
rust_rem(a, b) == a - b * rust_div(a, b)

\* `n as u32` for an i64 n with -2^31 <= n < 2^31: n modulo 2^32, as the limbs
\* <<hi, lo>> of hi * 2^16 + lo.
as_u32(n) ==
    IF n >= 0 THEN <<n \div U16Base, n % U16Base>>
    ELSE LET q == ((-n) + U16Base - 1) \div U16Base
         IN  <<U16Base - q, q * U16Base - (-n)>>

\* a < b on u32 values held in limbs.
u32_lt(a, b) == a[1] < b[1] \/ (a[1] = b[1] /\ a[2] < b[2])

\* `timestamp_100ns - 116444736000000000i64`, for a raw timestamp within one
\* limb of the offset.
unix_100ns(raw) == (raw[1] - FILETIME_EPOCH_HI) * Limb + raw[2]

\* `Utc.timestamp_opt(secs, nanos).single()`: the instant, or nothing when the
\* nanosecond part is out of range.
timestamp_opt(secs, nanos) ==
    IF u32_lt(nanos, as_u32(NANOS_LIMIT))
    THEN <<[src |-> "record", secs |-> secs, nanos |-> nanos]>>
    ELSE <<>>

\* Instants Utc::now() may answer, as seconds since the Unix epoch.
NowSamples == {1700000000, 1800000000}

\* The timestamp parse_event_record gives the event of raw timestamp raw when
\* the wall clock reads wall: the converted instant, or `Utc::now()` where
\* timestamp_opt has none.
event_timestamp(raw, wall) ==
    LET u     == unix_100ns(raw)
        secs  == rust_div(u, TICKS_PER_SEC)
        nanos == as_u32(rust_rem(u, TICKS_PER_SEC) * 100)
        opt   == timestamp_opt(secs, nanos)
    IN  IF opt # <<>> THEN opt[1]
        ELSE [src |-> "now", secs |-> wall, nanos |-> as_u32(0)]

\* Raw timestamps explored: up to one limb before and two after the 1970
\* epoch, on and off whole seconds.
SampleSecs == {0, 1, 57, 99}
SampleTicks == {0, 1, 4999999, 5000000, 9999999}
RawTimestamps ==
    {<<FILETIME_EPOCH_HI + h, s * TICKS_PER_SEC + r>> :
        h \in {-1, 0, 1}, s \in SampleSecs, r \in SampleTicks}

TInit ==
    /\ SessionIdle /\ ReaderIdle /\ TrackerIdle /\ ProbeIdle
    /\ FilterProbeIdle /\ KernelConfigInit /\ PidFilterIdle
    /\ \E raw \in RawTimestamps : TimestampProbeInit(raw)
    /\ ChannelInit

\* parse_event_record converts the record's timestamp.
parse_event_record_timestamp ==
    /\ ~tprobe.called
    /\ \E wall \in NowSamples :
          tprobe' = [tprobe EXCEPT !.called = TRUE,
                                   !.timestamp = <<event_timestamp(tprobe.raw, wall)>>]

TNext == parse_event_record_timestamp /\ UNCHANGED not_timestamp

SpecTimestamp == TInit /\ [][TNext]_allvars

\* The event's timestamp is the instant ticks 100 ns ticks from the Unix
\* epoch, as whole seconds plus a nanosecond part that is a multiple of 100
\* below 10^9.
IsInstant(ts, ticks) ==
    /\ ts.src = "record"
    /\ ts.nanos[1] * U16Base + ts.nanos[2] < Limb
    /\ (ts.nanos[1] * U16Base + ts.nanos[2]) % 100 = 0
    /\ ts.secs * TICKS_PER_SEC + (ts.nanos[1] * U16Base + ts.nanos[2]) \div 100 = ticks

\* Raw timestamps at or after the 1970 epoch are converted exactly.
TimestampFrom1970 ==
    (tprobe.called /\ unix_100ns(tprobe.raw) >= 0)
        => IsInstant(tprobe.timestamp[1], unix_100ns(tprobe.raw))

\* C32: for every raw timestamp t, those before the 1970 epoch included, the
\* event's timestamp lies exactly t - 116444736000000000 ticks from the Unix
\* epoch, as whole seconds plus a nanosecond part that is a multiple of 100
\* below 10^9.
C32_TimestampExact ==
    tprobe.called => IsInstant(tprobe.timestamp[1], unix_100ns(tprobe.raw))


\* ------------------------------------------------------------------ callback to consumer
\* The callback closure statement by statement, the consumer's receives and
\* StatsTracker::snapshot load by load, on the variable cs.  Events are
\* numbered in the order the callbacks take them up.

\* Raw records the backend hands to the callbacks.
MaxCbEvents == 3

\* A callback invocation is between its first and its last statement.
InCallback(t) == cs.cb[t].pc # "idle"

\* The callback's `stats.record_event_received()` and parse_event_record.
Callback_received(t) ==
    /\ ~InCallback(t)
    /\ cs.next <= MaxCbEvents
    /\ cs' = [cs EXCEPT !.stats = record_event_received(@),
                        !.cb[t] = [pc |-> "parsed", ev |-> cs.next, res |-> "none"],
                        !.next = @ + 1]

\* The callback's `event_tx.try_send(event)`.
Callback_try_send(t) ==
    /\ cs.cb[t].pc = "parsed"
    /\ LET r == try_send(cs.rx_alive, cs.queue, cs.cb[t].ev)
       IN  /\ r.res # "WouldBlock"
           /\ cs' = [cs EXCEPT !.queue = r.q,
                               !.sent = IF r.res = "Ok" THEN Append(@, cs.cb[t].ev) ELSE @,
                               !.discarded = IF r.res = "Disconnected" THEN @ + 1 ELSE @,
                               !.cb[t] = [@ EXCEPT !.pc = "matched", !.res = r.res]]

\* The arm of the callback's match: record_event_processed,
\* record_events_lost(1) or nothing; the callback returns.
Callback_record(t) ==
    /\ cs.cb[t].pc = "matched"
    /\ cs' = [cs EXCEPT !.stats = record_send(@, cs.cb[t].res),
                        !.cb[t] = [pc |-> "idle", ev |-> 0, res |-> "none"]]

\* A receive that hands out the newest queued event.
channel_recv_newest(q) ==
    [val |-> <<q[Len(q)]>>, q |-> SubSeq(q, 1, Len(q) - 1)]

\* Receiver::recv / recv_timeout / try_recv on a channel that holds an event:
\* the oldest one leaves the channel.
channel_recv(q) == [val |-> <<Head(q)>>, q |-> Tail(q)]

\* A receive of the consumer that finds an event.
Channel_receive ==
    /\ cs.queue # <<>>
    /\ LET r == channel_recv(cs.queue)
       IN  cs' = [cs EXCEPT !.queue = r.q, !.delivered = @ \o r.val]

\* A receive of the consumer that answers None on an empty channel.
Channel_none ==
    /\ cs.queue = <<>>
    /\ cs' = cs

\* The session exists and its owner is not inside snapshot().
OwnerFree == cs.rx_alive /\ cs.snap.pc \in {"none", "returned"}

\* next_event: blocks on an empty channel, the session holding a sender.
Channel_next_event == OwnerFree /\ Channel_receive

\* next_event_timeout: an event, or None after the timeout.
Channel_next_event_timeout ==
    OwnerFree /\ (Channel_receive \/ Channel_none)

\* try_next_event: an event, or None at once.
Channel_try_next_event ==
    OwnerFree /\ (Channel_receive \/ Channel_none)

\* The session is released (with its event_rx) while a processing thread is
\* still alive, as after a failed stop() in Drop.
Channel_released ==
    /\ OwnerFree
    /\ cs' = [cs EXCEPT !.rx_alive = FALSE]

\* snapshot(): `self.events_received.load(Relaxed)`.
snapshot_load_received ==
    /\ OwnerFree
    /\ cs' = [cs EXCEPT !.snap = [pc |-> "received", received |-> cs.stats.received,
                                  processed |-> 0, lost |-> 0]]

\* snapshot(): `self.events_processed.load(Relaxed)`.
snapshot_load_processed ==
    /\ cs.snap.pc = "received"
    /\ cs' = [cs EXCEPT !.snap = [@ EXCEPT !.pc = "processed",
                                           !.processed = cs.stats.processed]]

\* snapshot(): `events_lost: self.events_lost.load(Relaxed)` and the return of
\* the SessionStats.
snapshot_load_lost ==
    /\ cs.snap.pc = "processed"
    /\ cs' = [cs EXCEPT !.snap = [@ EXCEPT !.pc = "returned", !.lost = cs.stats.lost]]

CInit ==
    /\ SessionIdle /\ ReaderIdle /\ TrackerIdle /\ ProbeIdle
    /\ FilterProbeIdle /\ KernelConfigInit /\ PidFilterIdle
    /\ TimestampIdle /\ ChannelInit

CNext ==
    \/ \E t \in Threads : Callback_received(t) /\ UNCHANGED not_channel
    \/ \E t \in Threads : Callback_try_send(t) /\ UNCHANGED not_channel
    \/ \E t \in Threads : Callback_record(t) /\ UNCHANGED not_channel
    \/ Channel_next_event /\ UNCHANGED not_channel
    \/ Channel_next_event_timeout /\ UNCHANGED not_channel
    \/ Channel_try_next_event /\ UNCHANGED not_channel
    \/ Channel_released /\ UNCHANGED not_channel
    \/ snapshot_load_received /\ UNCHANGED not_channel
    \/ snapshot_load_processed /\ UNCHANGED not_channel
    \/ snapshot_load_lost /\ UNCHANGED not_channel

SpecChannel == CInit /\ [][CNext]_allvars

ChannelTypeOK ==
    /\ cs.stats.received \in 0..MaxCbEvents
    /\ cs.stats.processed \in 0..MaxCbEvents
    /\ cs.stats.lost \in 0..MaxCbEvents
    /\ \A t \in Threads : cs.cb[t].pc \in {"idle", "parsed", "matched"}
    /\ cs.next \in 1..(MaxCbEvents + 1)
    /\ cs.snap.pc \in {"none", "received", "processed", "returned"}


\* No callback invocation is in progress.
Quiescent == \A t \in Threads : ~InCallback(t)

\* C33: without reset(), events_processed + events_lost <= events_received in
\* every reachable state, and whenever no callback invocation is in progress
\* events_received = events_processed + events_lost + the number of events
\* discarded because the channel was disconnected.
C33_Accounting ==
    /\ cs.stats.processed + cs.stats.lost <= cs.stats.received
    /\ Quiescent => cs.stats.received = cs.stats.processed + cs.stats.lost + cs.discarded

\* Between callbacks, after events were processed and, the session released,
\* another was discarded.
C33_Witness ==
    /\ Quiescent /\ cs.discarded > 0 /\ cs.stats.processed > 0
    /\ cs.stats.received = MaxCbEvents

\* C34: the channel never holds more than channel_capacity events;
\* events_processed never exceeds the events queued plus the events handed to
\* the consumer, and equals that sum whenever no callback invocation is in
\* progress.
C34_ProcessedIsQueuedOrDelivered ==
    /\ Len(cs.queue) <= Capacity
    /\ cs.stats.processed <= Len(cs.queue) + Len(cs.delivered)
    /\ Quiescent => cs.stats.processed = Len(cs.queue) + Len(cs.delivered)

\* The channel is full, an event was consumed, and a callback has enqueued an
\* event it has not counted yet.
C34_Witness ==
    /\ Len(cs.queue) = Capacity /\ cs.delivered # <<>>
    /\ cs.stats.processed < Len(cs.queue) + Len(cs.delivered)

\* C35: whatever the interleaving of next_event, next_event_timeout and
\* try_next_event, the events the consumer received are a prefix of the
\* successful sends, in their order, each once.
C35_ReceivedPrefixOfSent ==
    /\ Len(cs.delivered) <= Len(cs.sent)
    /\ cs.delivered = SubSeq(cs.sent, 1, Len(cs.delivered))
    /\ \A i, j \in DOMAIN cs.delivered : i # j => cs.delivered[i] # cs.delivered[j]

\* Two events were received in the order of their sends, which is not the
\* order in which the callbacks took them up.
C35_Witness ==
    /\ Len(cs.delivered) >= 2
    /\ cs.delivered[1] > cs.delivered[2]

\* C36: every SessionStats returned by snapshot() has events_processed +
\* events_lost <= events_received, also when callbacks run during the
\* snapshot.
C36_SnapshotConsistent ==
    cs.snap.pc = "returned" => cs.snap.processed + cs.snap.lost <= cs.snap.received


\* C37: a KernelSession.stop() that fails with StopTraceFailed, both backend
\* stops having failed, changes nothing else: the state is still Running, the
\* stop flag is not set, the handle is retained with its thread unjoined, and
\* the owner is free to call stop() again.
C37_FailedStopChangesNothing ==
    [][(kernel_stop_enter /\ pc = "idle" /\ ~stop_refused(state) /\ ~AnyOk(backendCalls'))
          => /\ ret' = [op |-> "stop", res |-> "StopTraceFailed"]
             /\ Len(backendCalls') = 2
             /\ state' = "Running"
             /\ handle' = handle /\ handle'.trace_thread # 0 /\ ~handle'.stop_flag
             /\ thr' = thr /\ trace' = trace /\ trace_thread' = trace_thread
             /\ pc' = "idle"]_vars

\* A KernelSession's stop() failed with StopTraceFailed and left the session
\* Running with its handle.
C37_Witness ==
    /\ kind = "kernel" /\ pc = "idle"
    /\ ret = [op |-> "stop", res |-> "StopTraceFailed"]
    /\ state = "Running" /\ handle.trace_thread # 0
    /\ thr[handle.trace_thread] = "processing"


\* ------------------------------------------------------------------ termination of stop()
\* A step a processing thread or a blocked stop() takes on its own: the
\* backend loop returns once its trace was stopped, a callback in progress
\* completes, the thread writes Stopped and finishes, the join returns.
ThreadProgress ==
    \E t \in Threads :
        \/ trace[t] = "stopped" /\ process_exit(t)
        \/ callback_send(t)
        \/ thread_set_stopped(t)

\* The session with threads that keep running and a backend whose processing
\* loop exits once the backend has been told to stop.
SpecFair ==
    /\ Spec
    /\ WF_allvars(ThreadProgress /\ UNCHANGED not_session)
    /\ WF_allvars(stop_join /\ UNCHANGED not_session)

\* A stop() that got the backend to stop returns.
StopReturnsAfterBackendStop ==
    (pc = "stop_join" /\ AnyOk(backendCalls)) ~> (pc = "idle")

C39_RestartReusesChannel ==
    /\ [][(start_enter /\ backendCalls' = <<>>) => state = "Running"]_vars
    /\ [][(start_enter /\ state = "Stopped" /\ LastCall'.ok)
            => /\ pc' = "start_spawned"
               /\ thr[trace_thread'] = "none" /\ thr'[trace_thread'] = "processing"
               /\ stats' = stats /\ queue' = queue /\ delivered' = delivered
               /\ rxAlive' = rxAlive]_vars
    /\ [][start_set_running => (state' = "Running" /\ stats' = stats /\ queue' = queue)]_vars
    /\ [][start_return
            => /\ ret' = [op |-> "start", res |-> "Ok"]
               /\ handle'.trace_thread = trace_thread
               /\ stats' = stats /\ queue' = queue]_vars
    /\ [][\A t \in Threads :
            (callback_send(t) /\ queue' # queue) => queue' = Append(queue, cb[t])]_vars

\* A second start() on a stopped session is about to return: the first thread
\* has finished, the second is in its backend loop, the state is Running, and
\* an event is still queued with the counters it was counted in.
C39_Witness ==
    /\ pc = "start_written" /\ state = "Running"
    /\ thr[1] = "done" /\ trace_thread = 2 /\ thr[2] = "processing"
    /\ queue # <<>> /\ stats.processed > 0



\* ------------------------------------------------------------------ reader after the end
\* The reader's replay is used up: its thread has dropped the sender and the
\* channel holds nothing.
C40_Drained ==
    /\ rd.receiver # 0
    /\ replay[rd.receiver].st \in {"returned", "done"}
    /\ chan[rd.receiver] = <<>>

\* No call is held up: on a drained reader next_event() and the receive inside
\* next() can answer, and on a reader never started next_event() and
\* try_next_event() can answer.
C40_NeverBlocked ==
    /\ (C40_Drained /\ rd.obj = "rust" /\ rpc = "idle") => ENABLED EtlReader_next_event
    /\ (C40_Drained /\ rd.obj \in {"rust", "iter"} /\ rpc = "idle")
          => ENABLED Iterator_next_enter
    /\ (C40_Drained /\ rpc = "next_recv") => ENABLED Iterator_next_recv
    /\ (rd.obj = "rust" /\ rd.receiver = 0 /\ rpc = "idle")
          => (ENABLED EtlReader_next_event /\ ENABLED EtlReader_try_next_event)

\* C40: once a reader's replay is exhausted, next() and next_event() answer
\* absent, without waiting and without spawning a replay thread or replacing
\* the receiver; on a reader that was never started next_event() and
\* try_next_event() answer absent without waiting, and start nothing.
C40_AbsentAfterEndAndBeforeStart ==
    /\ []C40_NeverBlocked
    /\ [][(C40_Drained /\ Iterator_next_enter)
            => (replay' = replay /\ rd' = rd /\ chan' = chan /\ C40_Drained')]_rvars
    /\ [][(C40_Drained /\ Iterator_next_recv)
            => /\ rret'.res = "Ok" /\ rret'.val = <<>>
               /\ replay' = replay /\ rd' = rd /\ got' = got]_rvars
    /\ [][(C40_Drained /\ EtlReader_next_event)
            => /\ rret'.val = <<>>
               /\ replay' = replay /\ rd' = rd /\ got' = got]_rvars
    /\ [][(rd.receiver = 0 /\ (EtlReader_next_event \/ EtlReader_try_next_event))
            => /\ rret'.val = <<>>
               /\ replay' = replay /\ rd' = rd /\ got' = got]_rvars

\* next_event() answered absent on a reader whose single replay had sent the
\* whole file and whose events had all been retrieved before the call.
C40_Witness ==
    /\ rd.obj = "rust" /\ rret.op = "next_event" /\ rret.val = <<>>
    /\ rret.before = FileLen /\ Exhausted
    /\ \A k \in Replays : k > 1 => replay[k].st = "none"

=============================================================================
